---- MODULE Spec2Model ----
(***************************************************************************)
(* Model of the bike-surface-ai edge software.                             *)
(*                                                                         *)
(*   Spec       the buffered upload / local-backup pipeline of             *)
(*              src/edge/main.py (BikeEdgeSystem)                          *)
(*   SpecGroup  the damage grouping of src/edge/group_damages.py           *)
(*              (DamageGrouper.group_detections), followed by the grouping *)
(*              of src/edge/update_github_pages.py on the same events      *)
(*              (GitHubPagesUpdater.group_damages)                         *)
(*   SpecOrder  the same grouping on lists with more distinct timestamps   *)
(*   SpecSeverity  the severity classifiers of                             *)
(*              src/edge/auto_live_system.py and src/edge/group_damages.py *)
(*   SpecSurface  the surface smoothing of src/edge/auto_live_system.py    *)
(*              (AutoLiveSystem.process_surface), run twice                *)
(*   SpecDisk   Spec with a backup volume that can be full                 *)
(*   SpecInvalid  the grouping on lists with out-of-range latitudes        *)
(*   SpecReport the severity the exporters report for a growing cluster    *)
(*   SpecCapture  the capture tick of src/edge/auto_live_system.py         *)
(*              (capture_and_process with the whole of process_surface)    *)
(*   SpecRoute  the route segmentation of                                  *)
(*              src/edge/update_github_pages.py (segment_by_surface)       *)
(*   SpecShutdown  run, cleanup and upload_worker of                       *)
(*              src/edge/auto_live_system.py, with fairness                *)
(*   SpecStats  the grouping on lists with confidences, for the cluster    *)
(*              statistics                                                 *)
(*   SpecWeb    the request handlers and the video stream of               *)
(*              src/edge/web_ui.py, run by concurrent threads              *)
(***************************************************************************)
EXTENDS Integers, Sequences, FiniteSets, TLC

(***************************************************************************)
(* Bounds of the model.                                                    *)
(***************************************************************************)
\* the wall clock runs from tick 0 to MaxTime; a capture needs one tick
MaxTime == 3
\* the configurations tried: storage.max_backup_files, cloud.batch_size
BackupLimits == {0, 1, 2}
BatchSizes == {1, 2}
\* how many backup files earlier runs may have left in backup_dir
OldFileCounts == {0, 1}
\* longest input list handed to group_detections
MaxDetections == 3

\* clock ticks per wall-clock second: strftime("%Y%m%d_%H%M%S") has a
\* resolution of one second, time.time() a finer one
TicksPerSecond == 2

VARIABLES
    \* ---- BikeEdgeSystem (src/edge/main.py) ----
    pc,                \* where main() is: constructed, session, stopped, aborted
    running,           \* self.running
    session_data,      \* self.session_data, the outbound buffer
    ride_id,           \* self.ride_id
    upload_task,       \* the periodic_upload task: none, sleeping, cancelled
    backup_dir,        \* the backup_*.geojson files: name -> [content, mtime]
    max_backup_files,  \* config['storage']['max_backup_files']
    batch_size,        \* config['cloud']['batch_size']
    now,               \* the wall clock, in ticks
    \* ---- history of the run (not read by the program) ----
    captured,          \* every record appended to session_data
    accepted,          \* every record of a batch the endpoint answered "ok"
    backed_up,         \* every record written to a backup file
    last,              \* the step taken last
    \* ---- DamageGrouper (src/edge/group_damages.py) ----
    detections,        \* the list handed to group_detections
    pending,           \* sorted_detections not yet visited by the loop
    groups,            \* the local list groups, returned at the end
    gpc,               \* where group_detections is: ready, loop, done
    visit,             \* history: the loop iteration taken last
    \* ---- GitHubPagesUpdater (src/edge/update_github_pages.py) ----
    pages,             \* group_damages: where it is, and the groups returned
    \* ---- AutoLiveSystem (src/edge/auto_live_system.py) ----
    severity,          \* the severity classifiers applied to a pair of inputs
    surface,           \* two runs of the surface smoothing on one input
    capture,           \* the capture loop: route points, surface state
    shutdown,          \* run/cleanup and the upload worker thread
    \* ---- GitHubPagesUpdater.segment_by_surface ----
    route,             \* a route, its surface detections and its segments
    \* ---- the Flask application (src/edge/web_ui.py) ----
    webui              \* state, camera, the capture subprocesses, the requests

vars == <<pc, running, session_data, ride_id, upload_task, backup_dir,
          max_backup_files, batch_size, now, captured, accepted,
          backed_up, last, detections, pending, groups, gpc, visit,
          pages, severity, surface, capture, shutdown, route, webui>>

edgeVars == <<pc, running, session_data, ride_id, upload_task, backup_dir,
              max_backup_files, batch_size, now, captured, accepted,
              backed_up, last>>

groupVars == <<detections, pending, groups, gpc, visit, pages>>

liveVars == <<severity, surface, capture, shutdown, route, webui>>

Range(s) == { s[i] : i \in DOMAIN s }

None == "None"

(***************************************************************************)
(* src/edge/main.py                                                        *)
(***************************************************************************)

\* What one frame contributes to a detection record: the GPS fix and the
\* detector's output for the frame.
Frames ==
    { [latitude |-> 1, longitude |-> 11, detections |-> <<>>],
      [latitude |-> 2, longitude |-> 12, detections |-> <<"pothole">>] }

\* detection_record of start_session
DetectionRecord(t, f) ==
    [timestamp |-> t, latitude |-> f.latitude, longitude |-> f.longitude,
     detections |-> f.detections]

\* one feature of convert_to_geojson
Feature(record) ==
    [type |-> "Feature",
     geometry |-> [type |-> "Point",
                   coordinates |-> <<record.longitude, record.latitude>>],
     properties |-> [timestamp |-> record.timestamp,
                     detections |-> record.detections]]

\* convert_to_geojson(data), generated at clock t
convert_to_geojson(data, t) ==
    [type |-> "FeatureCollection",
     features |-> [i \in 1..Len(data) |-> Feature(data[i])],
     metadata |-> [generated |-> t, total_features |-> Len(data)]]

\* backup_{timestamp}.geojson: the name carries the clock to the second
backup_file(t) == t \div TicksPerSecond

\* a sort with the order reversed: the names, newest first
RECURSIVE SortedNewestFirst(_)
SortedNewestFirst(files) ==
    IF DOMAIN files = {} THEN <<>>
    ELSE LET newest == CHOOSE n \in DOMAIN files :
                           \A m \in DOMAIN files : files[n].mtime >= files[m].mtime
             rest == [n \in DOMAIN files \ {newest} |-> files[n]]
         IN <<newest>> \o SortedNewestFirst(rest)

\* sorted(backup_dir.glob(...), key=st_mtime): the names, oldest first
RECURSIVE SortedByMtime(_)
SortedByMtime(files) ==
    IF DOMAIN files = {} THEN <<>>
    ELSE LET oldest == CHOOSE n \in DOMAIN files :
                           \A m \in DOMAIN files : files[n].mtime <= files[m].mtime
             rest == [n \in DOMAIN files \ {oldest} |-> files[n]]
         IN <<oldest>> \o SortedByMtime(rest)

\* Python's seq[:-k] for k >= 0: -0 is 0, so seq[:-0] is seq[:0], the empty list
SliceToMinus(seq, k) ==
    IF k = 0 THEN <<>>
    ELSE SubSeq(seq, 1, Len(seq) - k)

\* cleanup_old_backups
cleanup_old_backups(files, max_files) ==
    LET backup_files == SortedByMtime(files)
        old == IF Len(backup_files) > max_files
               THEN Range(SliceToMinus(backup_files, max_files))
               ELSE {}
    IN [n \in DOMAIN files \ old |-> files[n]]

\* open(backup_file, 'w') + json.dump: creates the file or replaces its content
WriteFile(files, name, content, t) ==
    [n \in DOMAIN files \cup {name} |->
        IF n = name THEN [content |-> content, mtime |-> t] ELSE files[n]]

\* save_local_backup(data) at clock t; returns the directory afterwards
save_local_backup(files, data, max_files, t) ==
    IF data = <<>> THEN files
    ELSE cleanup_old_backups(
             WriteFile(files, backup_file(t), convert_to_geojson(data, t), t),
             max_files)

\* the files save_local_backup(data) writes at clock t
BackupWrites(data, t) ==
    IF data = <<>> THEN <<>>
    ELSE << [name |-> backup_file(t), data |-> data,
             content |-> convert_to_geojson(data, t)] >>

\* How a delivery can end: the response is 2xx and parses, the connection is
\* refused, the request times out, raise_for_status() raises for a non-2xx
\* status, response.json() raises on an unparsable body.
Outcomes == {"ok", "connection_error", "timeout", "http_error", "bad_json"}

\* the except clause of upload_to_cloud that an outcome reaches
ExceptClause(outcome) ==
    CASE outcome = "ok"               -> "none"
      [] outcome = "connection_error" -> "ConnectionError"
      [] outcome = "timeout"          -> "Timeout"
      [] outcome = "http_error"       -> "Exception"
      [] outcome = "bad_json"         -> "Exception"

\* upload_to_cloud without its last clause, `except Exception`
HandlerWithoutCatchAll(clause) ==
    CASE clause = "none"            -> "clear"
      [] clause = "ConnectionError" -> "backup"
      [] clause = "Timeout"         -> "backup"
      [] OTHER                      -> "raise"

\* what upload_to_cloud does when the try block ends in that clause
Handler(clause) ==
    CASE clause = "none"            -> "clear"
      [] clause = "ConnectionError" -> "backup"
      [] clause = "Timeout"         -> "backup"
      [] clause = "Exception"       -> "backup"
      [] OTHER                      -> "raise"

\* the success branch without its filter: the delivered records stay
KeepUploaded(data, data_to_upload) == data

\* self.session_data = [d for d in self.session_data if d not in data_to_upload]
ClearUploaded(data, data_to_upload) ==
    SelectSeq(data, LAMBDA d : d \notin Range(data_to_upload))

\* the except clauses draining the buffer as the success branch does
DrainAfterFailure(data, data_to_upload) ==
    SelectSeq(data, LAMBDA d : d \notin Range(data_to_upload))

\* session_data after a delivery that ended in an except clause: the except
\* clauses of upload_to_cloud do not assign it
KeepAfterFailure(data, data_to_upload) == data

\* the test of periodic_upload without batch_size: any data is enough
AnyData(data, size) == Len(data) >= 1

\* `if len(self.session_data) >= batch_size` of periodic_upload
EnoughData(data, size) == Len(data) >= size

\* the ride_id of the response body
ResponseRideId == 1

\* upload_to_cloud with a non-empty buffer, the delivery ending in `outcome`
\* at clock t. Returns the fields it leaves behind, the files it wrote and
\* whether the error left the function.
upload_to_cloud(data, files, rid, max_files, outcome, t) ==
    LET data_to_upload == data
        does == Handler(ExceptClause(outcome))
    IN [session_data |-> IF does = "clear"
                         THEN ClearUploaded(data, data_to_upload)
                         ELSE KeepAfterFailure(data, data_to_upload),
        backup_dir |-> IF does = "backup"
                       THEN save_local_backup(files, data_to_upload, max_files, t)
                       ELSE files,
        ride_id |-> IF does = "clear" THEN ResponseRideId ELSE rid,
        request |-> data_to_upload,
        written |-> IF does = "backup"
                    THEN BackupWrites(data_to_upload, t) ELSE <<>>,
        raised |-> (does = "raise")]

\* The step taken last: the operation, the buffer it found, whether it started
\* a delivery and how that ended, the records of the request that an earlier
\* backup already held, the files upload_to_cloud wrote, the files cleanup's
\* own save_local_backup wrote, whether upload_to_cloud raised.
Step(op, before, attempted, outcome, resent, written, final_written, raised) ==
    [op |-> op, before |-> before, attempted |-> attempted, outcome |-> outcome,
     resent |-> resent, written |-> written, final_written |-> final_written,
     raised |-> raised]

Quiet(op, before) == Step(op, before, FALSE, "none", {}, <<>>, <<>>, FALSE)

Written(writes) == UNION { Range(writes[i].data) : i \in DOMAIN writes }

\* backup files left by earlier runs: older than anything this run writes
OldFiles(k) ==
    [n \in { -i : i \in 1..k } |->
        [content |-> convert_to_geojson(
                        <<DetectionRecord(n, CHOOSE f \in Frames : f.latitude = 1)>>, n),
         mtime |-> n * TicksPerSecond]]

\* BikeEdgeSystem.__init__
EdgeInit ==
    /\ pc = "constructed"
    /\ running = FALSE
    /\ session_data = <<>>
    /\ ride_id = None
    /\ upload_task = "none"
    /\ max_backup_files \in BackupLimits
    /\ batch_size \in BatchSizes
    /\ \E k \in OldFileCounts : backup_dir = OldFiles(k)
    /\ now = 0
    /\ captured = {}
    /\ accepted = {}
    /\ backed_up = {}
    /\ last = Quiet("init", <<>>)

EdgeIdle ==
    /\ pc = "idle"
    /\ running = FALSE
    /\ session_data = <<>>
    /\ ride_id = None
    /\ upload_task = "none"
    /\ max_backup_files = 0
    /\ batch_size = 1
    /\ backup_dir = <<>>
    /\ now = 0
    /\ captured = {}
    /\ accepted = {}
    /\ backed_up = {}
    /\ last = Quiet("init", <<>>)

GroupIdle ==
    /\ detections = <<>>
    /\ pending = <<>>
    /\ groups = <<>>
    /\ gpc = "idle"
    /\ visit = [op |-> "none"]
    /\ pages = [pc |-> "idle"]

SeverityIdle == severity = [pc |-> "idle"]

SurfaceIdle == surface = [pc |-> "idle"]

CaptureIdle == capture = [pc |-> "idle"]

ShutdownIdle == shutdown = [pc |-> "idle"]

RouteIdle == route = [pc |-> "idle"]

WebuiIdle == webui = [pc |-> "idle"]

LiveIdle ==
    /\ SeverityIdle
    /\ SurfaceIdle
    /\ CaptureIdle
    /\ ShutdownIdle
    /\ RouteIdle
    /\ WebuiIdle

Init == EdgeInit /\ GroupIdle /\ LiveIdle

\* start_session up to the capture loop: the camera opens
StartSession ==
    /\ pc = "constructed"
    /\ pc' = "session"
    /\ session_data' = <<>>
    /\ running' = TRUE
    /\ upload_task' = "sleeping"
    /\ last' = Quiet("start", session_data)
    /\ UNCHANGED <<ride_id, backup_dir, max_backup_files, batch_size, now,
                   captured, accepted, backed_up>>
    /\ UNCHANGED <<groupVars, liveVars>>

\* start_session when the camera does not open: it returns at once
CameraFailed ==
    /\ pc = "constructed"
    /\ pc' = "aborted"
    /\ last' = Quiet("camera_failed", session_data)
    /\ UNCHANGED <<running, session_data, ride_id, upload_task, backup_dir,
                   max_backup_files, batch_size, now, captured, accepted,
                   backed_up>>
    /\ UNCHANGED <<groupVars, liveVars>>

\* one iteration of the capture loop that reads a frame and a GPS fix
CaptureTick(f) ==
    /\ pc = "session"
    /\ running
    /\ now < MaxTime
    /\ LET detection_record == DetectionRecord(now, f)
       IN /\ session_data' = Append(session_data, detection_record)
          /\ captured' = captured \cup {detection_record}
    /\ now' = now + 1
    /\ last' = Quiet("capture", session_data)
    /\ UNCHANGED <<pc, running, ride_id, upload_task, backup_dir,
                   max_backup_files, batch_size, accepted, backed_up>>
    /\ UNCHANGED <<groupVars, liveVars>>

\* time passes without a record: no frame, no GPS fix, or the FPS wait
Tick ==
    /\ pc = "session"
    /\ now < MaxTime
    /\ now' = now + 1
    /\ last' = Quiet("tick", session_data)
    /\ UNCHANGED <<pc, running, session_data, ride_id, upload_task, backup_dir,
                   max_backup_files, batch_size, captured, accepted, backed_up>>
    /\ UNCHANGED <<groupVars, liveVars>>

\* one iteration of periodic_upload: the sleep of upload_interval ends
PeriodicUpload(outcome) ==
    /\ pc = "session"
    /\ running
    /\ upload_task = "sleeping"
    /\ IF EnoughData(session_data, batch_size) /\ session_data # <<>>
       THEN \E r \in {upload_to_cloud(session_data, backup_dir, ride_id,
                                      max_backup_files, outcome, now)} :
               /\ session_data' = r.session_data
               /\ backup_dir' = r.backup_dir
               /\ ride_id' = r.ride_id
               /\ accepted' = IF outcome = "ok"
                              THEN accepted \cup Range(r.request) ELSE accepted
               /\ backed_up' = backed_up \cup Written(r.written)
               /\ last' = Step("timer", session_data, TRUE, outcome,
                               Range(r.request) \cap backed_up,
                               r.written, <<>>, r.raised)
       ELSE /\ outcome = "ok"
            /\ last' = Quiet("timer", session_data)
            /\ UNCHANGED <<session_data, backup_dir, ride_id, accepted, backed_up>>
    \* an exception out of upload_to_cloud is logged by the loop, which goes on
    /\ UNCHANGED <<pc, running, upload_task, max_backup_files, batch_size, now,
                   captured>>
    /\ UNCHANGED <<groupVars, liveVars>>

\* the finally block of start_session and cleanup(): the session stops, the
\* upload task is cancelled, the rest of the buffer is uploaded and, if it is
\* still there, saved; dt ticks pass between the delivery and that second save
Cleanup(outcome, dt) ==
    /\ pc = "session"
    /\ now + dt <= MaxTime
    /\ running' = FALSE
    /\ upload_task' = "cancelled"
    /\ pc' = "stopped"
    /\ IF session_data # <<>>
       THEN \E r \in {upload_to_cloud(session_data, backup_dir, ride_id,
                                      max_backup_files, outcome, now)} :
            \* an error out of upload_to_cloud ends cleanup there
            LET rest == IF r.raised THEN <<>> ELSE r.session_data
                final == BackupWrites(rest, now + dt)
            IN /\ session_data' = r.session_data
               /\ backup_dir' = save_local_backup(r.backup_dir, rest,
                                                  max_backup_files, now + dt)
               /\ ride_id' = r.ride_id
               /\ accepted' = IF outcome = "ok"
                              THEN accepted \cup Range(r.request) ELSE accepted
               /\ backed_up' = backed_up \cup Written(r.written) \cup Written(final)
               /\ last' = Step("cleanup", session_data, TRUE, outcome,
                               Range(r.request) \cap backed_up,
                               r.written, final, r.raised)
               /\ now' = now + dt
       ELSE /\ outcome = "ok"
            /\ dt = 0
            /\ last' = Quiet("cleanup", session_data)
            /\ UNCHANGED <<session_data, backup_dir, ride_id, accepted,
                           backed_up, now>>
    /\ UNCHANGED <<max_backup_files, batch_size, captured>>
    /\ UNCHANGED <<groupVars, liveVars>>

Next ==
    \/ StartSession
    \/ CameraFailed
    \/ \E f \in Frames : CaptureTick(f)
    \/ Tick
    \/ \E outcome \in Outcomes : PeriodicUpload(outcome)
    \/ \E outcome \in Outcomes, dt \in 0..1 : Cleanup(outcome, dt)

Spec == Init /\ [][Next]_vars

(***************************************************************************)
(* The upload / backup pipeline on a full backup volume: the               *)
(* save_local_backup called by an except clause of upload_to_cloud fails   *)
(* with OSError.                                                           *)
(***************************************************************************)

\* what open(backup_file, 'w') leaves when json.dump cannot write: a file
\* that is no GeoJSON document
TruncatedFile(t) ==
    [type |-> "truncated", features |-> <<>>,
     metadata |-> [generated |-> t, total_features |-> 0]]

\* the outcomes whose except clause calls save_local_backup
FailedOutcomes == { o \in Outcomes : Handler(ExceptClause(o)) = "backup" }

\* the attributes of the BikeEdgeSystem object
EdgeAttributes ==
    <<running, session_data, ride_id, upload_task, max_backup_files, batch_size>>

\* one iteration of periodic_upload whose delivery fails and whose backup
\* cannot be written: open() fails (created = FALSE) or creates the file and
\* json.dump fails; the OSError leaves save_local_backup before
\* cleanup_old_backups, leaves the except clause and upload_to_cloud, and is
\* logged by `except Exception` of periodic_upload, whose loop goes on
PeriodicUploadDiskFull(outcome, created) ==
    /\ pc = "session"
    /\ running
    /\ upload_task = "sleeping"
    /\ EnoughData(session_data, batch_size)
    /\ session_data # <<>>
    /\ backup_dir' = IF created
                     THEN WriteFile(backup_dir, backup_file(now),
                                    TruncatedFile(now), now)
                     ELSE backup_dir
    /\ last' = Step("disk_full", session_data, TRUE, outcome,
                    Range(session_data) \cap backed_up, <<>>, <<>>, TRUE)
    /\ UNCHANGED <<pc, running, session_data, ride_id, upload_task,
                   max_backup_files, batch_size, now, captured, accepted,
                   backed_up>>
    /\ UNCHANGED <<groupVars, liveVars>>

NextDisk ==
    \/ StartSession
    \/ CameraFailed
    \/ \E f \in Frames : CaptureTick(f)
    \/ Tick
    \/ \E outcome \in Outcomes : PeriodicUpload(outcome)
    \/ \E outcome \in Outcomes, dt \in 0..1 : Cleanup(outcome, dt)
    \/ \E outcome \in FailedOutcomes, created \in BOOLEAN :
          PeriodicUploadDiskFull(outcome, created)

SpecDisk == Init /\ [][NextDisk]_vars

(***************************************************************************)
(* Properties of the upload / backup pipeline (Spec)                       *)
(***************************************************************************)

\* the record is a feature of a backup file that is in backup_dir
OnDisk(e) ==
    \E n \in DOMAIN backup_dir : Feature(e) \in Range(backup_dir[n].content.features)

FilesHolding(e) ==
    { n \in DOMAIN backup_dir : Feature(e) \in Range(backup_dir[n].content.features) }

Failed(step) == step.attempted /\ step.outcome # "ok"

\* C1: when upload_to_cloud runs with N >= 1 buffered records and the delivery
\* fails with a connection error, exactly one backup file is written, it holds
\* the N records as Point features in buffer order, and session_data is empty
\* afterwards.
C1_BackupThenEmptyBuffer ==
    (last.attempted /\ last.outcome = "connection_error" /\ Len(last.before) >= 1)
    => /\ Len(last.written) = 1
       /\ last.written[1].content.features
             = [i \in 1..Len(last.before) |-> Feature(last.before[i])]
       /\ \A i \in 1..Len(last.before) :
             last.written[1].content.features[i].geometry.type = "Point"
       /\ session_data = <<>>

\* C2: a record whose batch failed delivery and went to a backup file is in
\* exactly one backup file (never in two), and a later delivery the endpoint
\* accepts does not carry it again.
C2_BackedUpOnceNotResent ==
    /\ \A e \in backed_up : Cardinality(FilesHolding(e)) <= 1
    /\ (last.attempted /\ last.outcome = "ok") => last.resent = {}

\* C3: at all times every captured record is in session_data, or was part of a
\* delivery the endpoint accepted, or is in a backup file that is on disk.
C3_NoCapturedRecordLost ==
    \A e \in captured : e \in Range(session_data) \/ e \in accepted \/ OnDisk(e)

\* C3 witness: a backup file that held a captured record has been rotated away
\* and the record is no longer in the buffer.
C3_RotatedAwayWitness ==
    \E e \in captured : e \in backed_up /\ ~OnDisk(e) /\ e \notin Range(session_data)

\* C4: when cleanup has returned, every record that was in session_data when it
\* began was accepted by the final delivery or is in a backup file on disk,
\* whatever the outcome of the final delivery and whatever batch_size is.
C4_CleanStopKeepsBuffer ==
    pc = "stopped" =>
        \A e \in Range(last.before) : e \in accepted \/ OnDisk(e)

\* C4 witness: a clean stop whose final delivery failed, with a buffer that
\* never reached batch_size.
C4_FailedFinalFlushWitness ==
    /\ pc = "stopped"
    /\ Failed(last)
    /\ Len(last.before) >= 1
    /\ Len(last.before) < batch_size

C6_TimerOrBatchSize ==
    /\ (last.op = "timer" /\ last.before # <<>>) => last.attempted
    /\ (last.op = "capture" /\ Len(session_data) >= batch_size) => last.attempted

\* C6 amended: while the session runs the worker starts a delivery exactly
\* when the timer fires and the buffer is then non-empty and holds at least
\* batch_size records; a smaller buffer is left as it is, and no capture
\* starts a delivery (the only other delivery is the final one of cleanup).
C6_TimerAndBatchSize ==
    /\ last.op = "timer" =>
          (last.attempted <=> (last.before # <<>> /\ Len(last.before) >= batch_size))
    /\ (last.op = "timer" /\ ~last.attempted) => session_data = last.before
    /\ last.attempted => last.op \in {"timer", "cleanup"}

\* C6 witness: the timer fired on a non-empty buffer smaller than batch_size.
C6_SmallBufferWitness ==
    /\ last.op = "timer"
    /\ last.before # <<>>
    /\ Len(last.before) < batch_size
    /\ ~last.attempted

\* C7: after every completed save_local_backup the backup files in backup_dir
\* are the max_backup_files most recently modified ones: there are at most
\* max_backup_files of them, for every max_backup_files >= 0.
C7_AtMostMaxBackupFiles ==
    (last.written # <<>> \/ last.final_written # <<>>)
    => Cardinality(DOMAIN backup_dir) <= max_backup_files

\* C8: a backup file, once written, keeps its content (here: its features):
\* every later failed batch goes to a new file, also within the same clock
\* second.
C8_BackupFileNeverRewritten ==
    [][\A n \in DOMAIN backup_dir \cap DOMAIN backup_dir' :
          backup_dir'[n].content.features = backup_dir[n].content.features]_vars

\* C9: every kind of delivery failure is handled alike: upload_to_cloud does
\* not raise, the batch it tried is written to one backup file, and after a
\* failed periodic upload the upload loop is still running.
C9_EveryFailureBackedUp ==
    Failed(last)
    => /\ ~last.raised
       /\ Len(last.written) = 1
       /\ last.written[1].data = last.before
       /\ last.written[1].content.features
             = [i \in 1..Len(last.before) |-> Feature(last.before[i])]
       /\ last.op = "timer" => (running /\ upload_task = "sleeping" /\ pc = "session")

\* C9 witness: a periodic upload met a response body that does not parse.
C9_BadJsonWitness ==
    last.op = "timer" /\ last.attempted /\ last.outcome = "bad_json"

(***************************************************************************)
(* src/edge/group_damages.py                                               *)
(*                                                                         *)
(* Positions lie on a local flat grid whose unit is half a metre, so that  *)
(* distances and means of coordinates are exact: a centre is kept as the   *)
(* sums of its members' coordinates and their count, and distances are     *)
(* compared squared and scaled by the count.                               *)
(***************************************************************************)

\* DamageGrouper(max_distance=1.0): one metre, in grid units
max_distance == 2

\* the detections tried as list elements
GpsPoints == { [latitude |-> la, longitude |-> 1] : la \in 0..4 }
Timestamps == {1, 2}
DamageTypes == {"pothole", "crack"}
DetectionInputs ==
    { [timestamp |-> t, gps |-> g, class |-> c] :
        t \in Timestamps, g \in GpsPoints, c \in DamageTypes }

RECURSIVE SeqsUpTo(_, _)
SeqsUpTo(S, n) ==
    IF n = 0 THEN { <<>> }
    ELSE LET shorter == SeqsUpTo(S, n - 1)
         IN shorter \cup { Append(q, x) : q \in { r \in shorter : Len(r) = n - 1 }, x \in S }

\* one step of a stable sort by timestamp: d goes behind every element whose
\* timestamp is not larger
InsertByTimestamp(sorted, d) ==
    LET k == Cardinality({ i \in DOMAIN sorted : sorted[i].timestamp <= d.timestamp })
    IN SubSeq(sorted, 1, k) \o <<d>> \o SubSeq(sorted, k + 1, Len(sorted))

\* the list left in its arrival order
ArrivalOrder(ds) == ds

\* sorted(detections, key=lambda d: d.get('timestamp', ''))
RECURSIVE SortByTimestamp(_)
SortByTimestamp(ds) ==
    IF ds = <<>> THEN <<>>
    ELSE InsertByTimestamp(SortByTimestamp(SubSeq(ds, 1, Len(ds) - 1)), ds[Len(ds)])

\* calculate_distance(lat, lon, center) <= max_distance, the centre being
\* (center.lat / center.n, center.lon / center.n)
WithinMaxDistance(lat, lon, center) ==
    LET dlat == lat * center.n - center.lat
        dlon == lon * center.n - center.lon
    IN dlat * dlat + dlon * dlon <= max_distance * max_distance * center.n * center.n

\* the test of the inner loop without the comparison of damage types
MatchesAnyType(group, lat, lon, damage_type) ==
    WithinMaxDistance(lat, lon, group.center)

\* the test of the inner loop: within max_distance and of the same damage type
Matches(group, lat, lon, damage_type) ==
    /\ WithinMaxDistance(lat, lon, group.center)
    /\ group.damage_type = damage_type

\* the inner loop `for group in groups: ... break`: the index of the group the
\* detection is added to, 0 when the loop ends without a match
FoundGroup(gs, lat, lon, damage_type) ==
    LET matching == { i \in DOMAIN gs : Matches(gs[i], lat, lon, damage_type) }
    IN IF matching = {} THEN 0
       ELSE CHOOSE i \in matching : \A j \in matching : i <= j

\* a centre that follows the newest member instead of the mean
newest_member_center(members) ==
    [lat |-> members[Len(members)].gps.latitude,
     lon |-> members[Len(members)].gps.longitude,
     n |-> 1]

\* _update_group_center: the mean of the members' coordinates
update_group_center(members) ==
    [lat |-> LET S[i \in 0..Len(members)] ==
                     IF i = 0 THEN 0 ELSE S[i - 1] + members[i].gps.latitude
             IN S[Len(members)],
     lon |-> LET S[i \in 0..Len(members)] ==
                     IF i = 0 THEN 0 ELSE S[i - 1] + members[i].gps.longitude
             IN S[Len(members)],
     n |-> Len(members)]

\* a new group numbered from 0
NewGroupFromZero(gs, detection) ==
    [id |-> Len(gs),
     damage_type |-> detection.class,
     center |-> [lat |-> detection.gps.latitude,
                 lon |-> detection.gps.longitude, n |-> 1],
     detections |-> <<detection>>,
     created |-> detection.timestamp]

\* the new group of the `if not found_group` branch
NewGroup(gs, detection) ==
    [id |-> Len(gs) + 1,
     damage_type |-> detection.class,
     center |-> [lat |-> detection.gps.latitude,
                 lon |-> detection.gps.longitude, n |-> 1],
     detections |-> <<detection>>,
     created |-> detection.timestamp]

\* `if not gps.get('latitude') or not gps.get('longitude'): continue`
Skipped(detection) ==
    detection.gps.latitude = 0 \/ detection.gps.longitude = 0

\* one iteration of `for detection in sorted_detections`
VisitDetection(gs, detection) ==
    IF Skipped(detection) THEN gs
    ELSE LET k == FoundGroup(gs, detection.gps.latitude,
                             detection.gps.longitude, detection.class)
         IN IF k = 0 THEN Append(gs, NewGroup(gs, detection))
            ELSE LET members == Append(gs[k].detections, detection)
                 IN [gs EXCEPT ![k] = [@ EXCEPT !.detections = members,
                                                !.center = update_group_center(members)]]

\* the closing loop: each group's members sorted by timestamp
SortMembers(gs) ==
    [i \in DOMAIN gs |-> [gs[i] EXCEPT !.detections = SortByTimestamp(@)]]

\* Confidences are floating-point numbers.  The model keeps the rounding of
\* the arithmetic at a reduced width: a float is a whole number of units of
\* 2^-unit_bits that has at most mantissa_bits significant bits.
mantissa_bits == 5
unit_bits == 8

RECURSIVE Pow2(_)
Pow2(n) == IF n = 0 THEN 1 ELSE 2 * Pow2(n - 1)

\* the mantissas are below this
mantissa_limit == Pow2(mantissa_bits)

\* the spacing of the floats around num / den, found from ulp upwards
RECURSIVE Spacing(_, _, _)
Spacing(num, den, ulp) ==
    IF num < mantissa_limit * ulp * den THEN ulp
    ELSE Spacing(num, den, 2 * ulp)

\* num / den rounded to a multiple of ulp, a tie going to the even multiple
RoundToMultiple(num, step) ==
    LET q == num \div step
        rest == num % step
    IN IF 2 * rest > step \/ (2 * rest = step /\ q % 2 = 1)
       THEN q + 1 ELSE q

\* the float nearest to num / den, a tie going to the even mantissa
RoundToFloat(num, den) ==
    LET ulp == Spacing(num, den, 1)
    IN RoundToMultiple(num, den * ulp) * ulp

\* d.get('detection', {}).get('confidence', 0)
Confidence(d) == IF "confidence" \in DOMAIN d THEN d.confidence ELSE 0

\* a mean that divides by one more than the number of members
mean_off_by_one(members) ==
    LET S[i \in 0..Len(members)] ==
            IF i = 0 THEN 0
            ELSE RoundToFloat(S[i - 1] + Confidence(members[i]), 1)
    IN RoundToFloat(S[Len(members)], Len(members) + 1)

\* sum(confidences) / len(detections): sum() adds from the left, each
\* addition rounded, and the quotient is rounded
mean_confidence(members) ==
    LET S[i \in 0..Len(members)] ==
            IF i = 0 THEN 0
            ELSE RoundToFloat(S[i - 1] + Confidence(members[i]), 1)
    IN RoundToFloat(S[Len(members)], Len(members))

\* max(confidences)
max_confidence(members) ==
    CHOOSE c \in { Confidence(members[i]) : i \in DOMAIN members } :
        \A i \in DOMAIN members : Confidence(members[i]) <= c

\* `# Füge Statistiken hinzu` for a group whose members are sorted
group_statistics(g) ==
    [id |-> g.id,
     damage_type |-> g.damage_type,
     center |-> g.center,
     detections |-> g.detections,
     created |-> g.created,
     image_count |-> Len(g.detections),
     avg_confidence |-> mean_confidence(g.detections),
     best_confidence |-> max_confidence(g.detections),
     first_seen |-> g.detections[1].timestamp,
     last_seen |-> g.detections[Len(g.detections)].timestamp]

\* the closing loop `for group in groups`: members sorted, statistics added
CloseGroups(gs) ==
    [i \in DOMAIN gs |->
        group_statistics([gs[i] EXCEPT !.detections = SortByTimestamp(@)])]

GroupInit ==
    /\ detections \in SeqsUpTo(DetectionInputs, MaxDetections)
    /\ pending = <<>>
    /\ groups = <<>>
    /\ gpc = "ready"
    /\ visit = [op |-> "none"]
    /\ pages = [pc |-> "ready"]

\* group_detections is entered: the empty list returns at once, any other is
\* sorted by timestamp
GroupEnter ==
    /\ gpc = "ready"
    /\ IF detections = <<>>
       THEN gpc' = "done" /\ pending' = <<>>
       ELSE gpc' = "loop" /\ pending' = SortByTimestamp(detections)
    /\ groups' = <<>>
    /\ visit' = [op |-> "enter"]
    /\ UNCHANGED <<detections, pages>>
    /\ UNCHANGED <<edgeVars, liveVars>>

\* the loop body for the next detection
GroupVisit ==
    /\ gpc = "loop"
    /\ pending # <<>>
    /\ groups' = VisitDetection(groups, Head(pending))
    /\ pending' = Tail(pending)
    /\ visit' = [op |-> "visit", detection |-> Head(pending), before |-> groups]
    /\ UNCHANGED <<detections, gpc, pages>>
    /\ UNCHANGED <<edgeVars, liveVars>>

\* the loop is over: members are sorted and the groups returned
GroupReturn ==
    /\ gpc = "loop"
    /\ pending = <<>>
    /\ groups' = CloseGroups(groups)
    /\ gpc' = "done"
    /\ visit' = [op |-> "return"]
    /\ UNCHANGED <<detections, pending, pages>>
    /\ UNCHANGED <<edgeVars, liveVars>>

\* the loop `for detection in sorted_detections` as a whole
RECURSIVE VisitAll(_, _)
VisitAll(gs, sorted_detections) ==
    IF sorted_detections = <<>> THEN gs
    ELSE VisitAll(VisitDetection(gs, Head(sorted_detections)),
                  Tail(sorted_detections))

\* group_detections(detections): the groups it returns
group_detections(ds) ==
    IF ds = <<>> THEN <<>>
    ELSE CloseGroups(VisitAll(<<>>, SortByTimestamp(ds)))

(***************************************************************************)
(* src/edge/update_github_pages.py: GitHubPagesUpdater.group_damages, on   *)
(* the same grid.  The session's damages are the same events, each with    *)
(* its coordinates and damage_type at the top level.                       *)
(***************************************************************************)

\* gh_config['geojson'].get('group_radius_m', 1.0): one metre, in grid units
group_radius_m == 2

\* an entry of the session's damages list
Damage(detection) ==
    [damage_type |-> detection.class,
     latitude |-> detection.gps.latitude,
     longitude |-> detection.gps.longitude,
     timestamp |-> detection.timestamp]

\* geodesic(damage, other).meters <= radius_m
WithinRadius(damage, other) ==
    LET dlat == other.latitude - damage.latitude
        dlon == other.longitude - damage.longitude
    IN dlat * dlat + dlon * dlon <= group_radius_m * group_radius_m

\* the inner loop for the group opened by damages[i]: the indices j it
\* appends, none of them used before
Nearby(damages, used, i) ==
    { j \in DOMAIN damages :
        /\ j \notin used
        /\ j # i
        /\ damages[i].damage_type = damages[j].damage_type
        /\ WithinRadius(damages[i], damages[j]) }

\* the outer loop from index i on, with the indices used so far
RECURSIVE GroupsFrom(_, _, _)
GroupsFrom(damages, i, used) ==
    IF i > Len(damages) THEN <<>>
    ELSE IF i \in used THEN GroupsFrom(damages, i + 1, used)
    ELSE LET nearby == Nearby(damages, used \cup {i}, i)
             others == SelectSeq([j \in DOMAIN damages |-> j],
                                 LAMBDA j : j \in nearby)
             group == <<damages[i]>> \o [k \in DOMAIN others |-> damages[others[k]]]
         IN <<group>> \o GroupsFrom(damages, i + 1, used \cup {i} \cup nearby)

\* avg_lat, avg_lon of generate_damages_geojson: the centre of a returned
\* group, as sums and count
avg_position(group) ==
    [lat |-> LET S[i \in 0..Len(group)] ==
                     IF i = 0 THEN 0 ELSE S[i - 1] + group[i].latitude
             IN S[Len(group)],
     lon |-> LET S[i \in 0..Len(group)] ==
                     IF i = 0 THEN 0 ELSE S[i - 1] + group[i].longitude
             IN S[Len(group)],
     n |-> Len(group)]

\* group_damages(damages); has_geodesic is whether geopy could be imported
group_damages(damages, has_geodesic) ==
    IF damages = <<>> \/ ~has_geodesic
    THEN [i \in DOMAIN damages |-> <<damages[i]>>]
    ELSE GroupsFrom(damages, 1, {})

\* The updater groups the damages of the session.  It shares no state with
\* group_detections; it is taken after it so that both results stand side by
\* side.
GroupDamages(has_geodesic) ==
    /\ gpc = "done"
    /\ pages.pc = "ready"
    /\ pages' = [pc |-> "done",
                 geodesic |-> has_geodesic,
                 groups |-> group_damages([i \in DOMAIN detections |->
                                              Damage(detections[i])],
                                          has_geodesic)]
    /\ UNCHANGED <<detections, pending, groups, gpc, visit>>
    /\ UNCHANGED <<edgeVars, liveVars>>

\* The lists tried for the order of processing: every timestamp from 1 to
\* MaxDetections, so that a list of full length can have pairwise distinct
\* timestamps, at three places of which the outer two are further apart than
\* max_distance.
OrderInputs ==
    { [timestamp |-> t, gps |-> [latitude |-> la, longitude |-> 1],
       class |-> "pothole"] : t \in 1..MaxDetections, la \in {1, 3, 4} }

OrderInit ==
    /\ detections \in SeqsUpTo(OrderInputs, MaxDetections)
    /\ pending = <<>>
    /\ groups = <<>>
    /\ gpc = "ready"
    /\ visit = [op |-> "none"]
    /\ pages = [pc |-> "ready"]

InitGroup == EdgeIdle /\ GroupInit /\ LiveIdle

NextGroup ==
    \/ GroupEnter
    \/ GroupVisit
    \/ GroupReturn
    \/ \E has_geodesic \in BOOLEAN : GroupDamages(has_geodesic)

SpecGroup == InitGroup /\ [][NextGroup]_vars

(***************************************************************************)
(* SpecOrder: the same program on lists with up to MaxDetections different *)
(* timestamps.                                                             *)
(***************************************************************************)
InitOrder == EdgeIdle /\ OrderInit /\ LiveIdle

SpecOrder == InitOrder /\ [][NextGroup]_vars

(***************************************************************************)
(* Detections with a latitude outside the valid range, given to            *)
(* DamageGrouper.group_detections.  The range limit is the one the cloud   *)
(* API declares for Detection.latitude in src/cloud/api/main.py.           *)
(***************************************************************************)

\* the grid latitude that stands for the limit `le=90`
latitude_le == 4

InRange(detection) ==
    /\ detection.gps.latitude >= -latitude_le
    /\ detection.gps.latitude <= latitude_le

InvalidInputs ==
    { [timestamp |-> t, gps |-> [latitude |-> la, longitude |-> 1],
       class |-> "pothole"] : t \in Timestamps, la \in {1, 3, latitude_le + 1} }

InvalidInit ==
    /\ detections \in SeqsUpTo(InvalidInputs, MaxDetections)
    /\ pending = <<>>
    /\ groups = <<>>
    /\ gpc = "ready"
    /\ visit = [op |-> "none"]
    /\ pages = [pc |-> "ready"]

InitInvalid == EdgeIdle /\ InvalidInit /\ LiveIdle

SpecInvalid == InitInvalid /\ [][NextGroup]_vars

(***************************************************************************)
(* Detections that carry a confidence, given to group_detections for the   *)
(* statistics of its closing loop.  Confidences are in units of            *)
(* 2^-unit_bits: 128 is 0.5, 208 is 0.8125.                                *)
(***************************************************************************)

StatsConfidences == {128, 208}

StatsInputs ==
    { [timestamp |-> t, gps |-> [latitude |-> la, longitude |-> 1],
       class |-> "pothole", confidence |-> c] :
        t \in Timestamps, la \in {1, 4}, c \in StatsConfidences }

StatsInit ==
    /\ detections \in SeqsUpTo(StatsInputs, MaxDetections)
    /\ pending = <<>>
    /\ groups = <<>>
    /\ gpc = "ready"
    /\ visit = [op |-> "none"]
    /\ pages = [pc |-> "ready"]

InitStats == EdgeIdle /\ StatsInit /\ LiveIdle

SpecStats == InitStats /\ [][NextGroup]_vars

(***************************************************************************)
(* Severity classification: AutoLiveSystem.calculate_severity of           *)
(* src/edge/auto_live_system.py and DamageGrouper._calculate_severity of   *)
(* src/edge/group_damages.py.  Confidences are in hundredths.  Each        *)
(* classifier is applied to a lower and a higher confidence with all its   *)
(* other inputs the same.                                                  *)
(***************************************************************************)

\* most images a group is given
MaxImages == 3

\* the confidences tried: the thresholds of both classifiers, and values
\* just off them
Confidences == {0, 60, 61, 70, 75, 76, 80, 81, 85, 100}

\* the classes of the detector that the classifiers are applied to
SeverityTypes == {"pothole", "crack", "patch"}

\* an entry of damage_detection.severity_rules: the thresholds of a type,
\* each key of which may be missing (has_high, has_medium)
Thresholds(has_high, high, has_medium, medium) ==
    [present |-> TRUE, has_high |-> has_high, high |-> high,
     has_medium |-> has_medium, medium |-> medium]

RuleEntries ==
    { Thresholds(TRUE, 80, TRUE, 60), Thresholds(TRUE, 60, TRUE, 80),
      Thresholds(FALSE, 0, TRUE, 75), Thresholds(TRUE, 90, FALSE, 0) }

\* the type is not a key of severity_rules
NoEntry ==
    [present |-> FALSE, has_high |-> FALSE, high |-> 0,
     has_medium |-> FALSE, medium |-> 0]

\* the tables tried: per type an entry or none
RuleTables ==
    { [pothole |-> p, crack |-> c, patch |-> NoEntry] :
        p \in RuleEntries \cup {NoEntry}, c \in RuleEntries \cup {NoEntry} }

\* the `else` branch: thresholds = {'high': 0.85, 'medium': 0.70}
DefaultThresholds == Thresholds(TRUE, 85, TRUE, 70)

\* thresholds.get(key, default)
Get(has_key, value, default) == IF has_key THEN value ELSE default

\* a classifier that tests the medium threshold before the high one
calculate_severity_medium_first(rules, damage_type, confidence) ==
    LET thresholds == IF rules[damage_type].present THEN rules[damage_type]
                      ELSE DefaultThresholds
    IN IF confidence >= Get(thresholds.has_medium, thresholds.medium, 70)
       THEN "medium"
       ELSE IF confidence >= Get(thresholds.has_high, thresholds.high, 85)
       THEN "high"
       ELSE "low"

\* AutoLiveSystem.calculate_severity(damage_type, confidence), rules being
\* config['damage_detection'].get('severity_rules', {})
calculate_severity(rules, damage_type, confidence) ==
    LET thresholds == IF rules[damage_type].present THEN rules[damage_type]
                      ELSE DefaultThresholds
    IN IF confidence >= Get(thresholds.has_high, thresholds.high, 85)
       THEN "high"
       ELSE IF confidence >= Get(thresholds.has_medium, thresholds.medium, 70)
       THEN "medium"
       ELSE "low"

\* the same for an image_factor that is full at 2 images: min(image_count / 2, 1.0)
ImageFactorOfTwoAbove(image_count, tenths) ==
    IF image_count >= 2 THEN 10 > tenths ELSE 10 * image_count > 2 * tenths

\* image_factor > tenths / 10, for image_factor = min(image_count / 3, 1.0)
ImageFactorAbove(image_count, tenths) ==
    IF image_count >= 3 THEN 10 > tenths ELSE 10 * image_count > 3 * tenths

\* DamageGrouper._calculate_severity(group), for a group with this
\* damage_type (in lower case), best_confidence and image_count
group_severity(damage_type, confidence, image_count) ==
    IF damage_type = "pothole"
    THEN IF confidence > 80 \/ ImageFactorAbove(image_count, 7) THEN "high"
         ELSE IF confidence > 60 THEN "medium"
         ELSE "low"
    ELSE IF damage_type = "crack"
    THEN IF confidence > 75 /\ ImageFactorAbove(image_count, 5) THEN "medium"
         ELSE "low"
    ELSE "low"

\* the results of a classifier before it is applied
NotClassified == [lower |-> None, higher |-> None]

SeverityInit ==
    severity \in
        { [damage_type |-> t, image_count |-> n, lower |-> lo, higher |-> hi,
           rules |-> r, live |-> NotClassified, grouped |-> NotClassified] :
            t \in SeverityTypes, n \in 1..MaxImages,
            lo \in Confidences, hi \in Confidences, r \in RuleTables }

\* process_damages classifies a detection
CalculateSeverity ==
    /\ severity.live = NotClassified
    /\ severity' =
          [severity EXCEPT !.live =
              [lower |-> calculate_severity(severity.rules,
                                            severity.damage_type, severity.lower),
               higher |-> calculate_severity(severity.rules,
                                             severity.damage_type, severity.higher)]]
    /\ UNCHANGED <<edgeVars, groupVars, surface, capture, shutdown, route, webui>>

\* export_grouped_geojson classifies a group
GroupSeverity ==
    /\ severity.grouped = NotClassified
    /\ severity' =
          [severity EXCEPT !.grouped =
              [lower |-> group_severity(severity.damage_type, severity.lower,
                                        severity.image_count),
               higher |-> group_severity(severity.damage_type, severity.higher,
                                         severity.image_count)]]
    /\ UNCHANGED <<edgeVars, groupVars, surface, capture, shutdown, route, webui>>

InitSeverity ==
    /\ EdgeIdle
    /\ GroupIdle
    /\ SeverityInit
    /\ SurfaceIdle
    /\ CaptureIdle
    /\ ShutdownIdle
    /\ RouteIdle
    /\ WebuiIdle

NextSeverity ==
    \/ CalculateSeverity
    \/ GroupSeverity

SpecSeverity == InitSeverity /\ [][NextSeverity]_vars

(***************************************************************************)
(* The severity reported for a cluster that grows.  A detection is         *)
(* classified by process_damages when it is made and stored with its       *)
(* severity; generate_damages_geojson of src/edge/update_github_pages.py   *)
(* reports a group from the stored severities of its members, and          *)
(* export_grouped_geojson of src/edge/group_damages.py from the group's    *)
(* statistics.  Every export regroups all detections made so far.          *)
(***************************************************************************)

ReportConfidences == {60, 75, 81, 90}

ReportRules == { r \in RuleTables : r.crack = NoEntry }

\* the severity of the member a group was opened with
first_severity(severities) == severities[1]

\* `'high' if 'high' in severities else ('medium' if 'medium' in severities
\* else 'low')`
reported_severity(severities) ==
    IF \E i \in DOMAIN severities : severities[i] = "high" THEN "high"
    ELSE IF \E i \in DOMAIN severities : severities[i] = "medium" THEN "medium"
    ELSE "low"

\* max(d['confidence'] for d in group)
best_confidence(members) ==
    CHOOSE c \in { members[i].confidence : i \in DOMAIN members } :
        \A i \in DOMAIN members : members[i].confidence <= c

\* nothing exported yet
NotReported == [severity |-> None, members |-> <<>>]

ReportInit ==
    severity \in
        { [pc |-> "live", damage_type |-> t, rules |-> r, members |-> <<>>,
           pages |-> NotReported, grouped |-> NotReported] :
            t \in SeverityTypes, r \in ReportRules }

OtherThanSeverity == <<edgeVars, groupVars, surface, capture, shutdown, route, webui>>

\* process_damages: a further detection of the damage, classified and stored
ProcessDamage(confidence) ==
    /\ severity.pc = "live"
    /\ Len(severity.members) < MaxImages
    /\ severity' =
          [severity EXCEPT !.members =
              Append(@, [confidence |-> confidence,
                         severity |-> calculate_severity(severity.rules,
                                                         severity.damage_type,
                                                         confidence)])]
    /\ UNCHANGED OtherThanSeverity

\* generate_damages_geojson for the group of all detections so far
GenerateDamagesGeojson ==
    /\ severity.pc = "live"
    /\ severity.members # <<>>
    /\ severity' =
          [severity EXCEPT !.pages =
              [severity |-> reported_severity(
                               [i \in DOMAIN severity.members |->
                                   severity.members[i].severity]),
               members |-> severity.members]]
    /\ UNCHANGED OtherThanSeverity

\* group_detections' statistics and export_grouped_geojson for the same group
ExportGroupedGeojson ==
    /\ severity.pc = "live"
    /\ severity.members # <<>>
    /\ severity' =
          [severity EXCEPT !.grouped =
              [severity |-> group_severity(severity.damage_type,
                                           best_confidence(severity.members),
                                           Len(severity.members)),
               members |-> severity.members]]
    /\ UNCHANGED OtherThanSeverity

InitReport ==
    /\ EdgeIdle
    /\ GroupIdle
    /\ ReportInit
    /\ SurfaceIdle
    /\ CaptureIdle
    /\ ShutdownIdle
    /\ RouteIdle
    /\ WebuiIdle

NextReport ==
    \/ \E confidence \in ReportConfidences : ProcessDamage(confidence)
    \/ GenerateDamagesGeojson
    \/ ExportGroupedGeojson

SpecReport == InitReport /\ [][NextReport]_vars

(***************************************************************************)
(* Surface smoothing: AutoLiveSystem.process_surface of                    *)
(* src/edge/auto_live_system.py, from the sample on.  Two runs of the      *)
(* program are fed the same samples.  `max(set(types), key=types.count)`   *)
(* returns the first label of highest count in the iteration order of the  *)
(* set, which for strings follows their hashes and so is fixed within a    *)
(* run of the interpreter and differs between runs: hash_order.            *)
(***************************************************************************)

\* longest sequence of samples fed to the smoothing
MaxSamples == 3

\* config['surface_detection'].get('smoothing_window', 3)
SmoothingWindows == {1, 2, 3}

SurfaceLabels == {"asphalt", "gravel", "cobblestone"}

\* the (surface_type, confidence) samples tried, confidence in hundredths
Samples == { [surface_type |-> l, confidence |-> c] :
               l \in SurfaceLabels, c \in {60, 90} }

\* the iteration orders a set of labels can have in a run
HashOrders ==
    { o \in [1..Cardinality(SurfaceLabels) -> SurfaceLabels] :
        \A i, j \in DOMAIN o : o[i] = o[j] => i = j }

\* self.surface_buffer.append(...) on a deque(maxlen=window)
AppendMaxlen(buffer, sample, window) ==
    LET longer == Append(buffer, sample)
    IN IF Len(longer) > window THEN Tail(longer) ELSE longer

\* types.count(label)
Count(buffer, label) ==
    Cardinality({ i \in DOMAIN buffer : buffer[i].surface_type = label })

\* max(set(types), key=types.count): the first label, in the iteration order
\* of the set, that no label outnumbers
MostCommon(buffer, hash_order) ==
    LET present == { i \in DOMAIN hash_order : Count(buffer, hash_order[i]) > 0 }
        best == { i \in present :
                    \A j \in present :
                       Count(buffer, hash_order[j]) <= Count(buffer, hash_order[i]) }
    IN hash_order[CHOOSE i \in best : \A j \in best : i <= j]

\* statistics.mean of the confidences of the samples with this label, as sum
\* and count
MeanConfidence(buffer, label) ==
    LET S[i \in 0..Len(buffer)] ==
            IF i = 0 THEN 0
            ELSE S[i - 1] + (IF buffer[i].surface_type = label
                             THEN buffer[i].confidence ELSE 0)
    IN [sum |-> S[Len(buffer)], n |-> Count(buffer, label)]

\* process_surface from `self.surface_buffer.append` on, for one run
process_surface(run, sample, window, smoothing) ==
    LET buffer == AppendMaxlen(run.surface_buffer, sample, window)
        smoothed == smoothing /\ Len(buffer) >= 2
        surface_type == IF smoothed THEN MostCommon(buffer, run.hash_order)
                        ELSE sample.surface_type
        confidence == IF smoothed THEN MeanConfidence(buffer, surface_type)
                      ELSE [sum |-> sample.confidence, n |-> 1]
    IN [run EXCEPT !.surface_buffer = buffer,
                   !.current_surface = surface_type,
                   !.confidence = confidence]

\* a run before its first sample
NewRun(hash_order) ==
    [hash_order |-> hash_order,
     surface_buffer |-> <<>>,
     current_surface |-> None,
     confidence |-> [sum |-> 0, n |-> 0]]

SurfaceInit ==
    surface \in
        { [window |-> w, smoothing |-> s, fed |-> <<>>,
           runs |-> <<NewRun(o1), NewRun(o2)>>] :
            w \in SmoothingWindows, s \in BOOLEAN,
            o1 \in HashOrders, o2 \in HashOrders }

\* both runs are given the next sample
ProcessSurface(sample) ==
    /\ Len(surface.fed) < MaxSamples
    /\ surface' =
          [surface EXCEPT
              !.fed = Append(@, sample),
              !.runs = [r \in 1..2 |->
                           process_surface(surface.runs[r], sample,
                                           surface.window, surface.smoothing)]]
    /\ UNCHANGED <<edgeVars, groupVars, severity, capture, shutdown, route, webui>>

InitSurface ==
    /\ EdgeIdle
    /\ GroupIdle
    /\ SeverityIdle
    /\ SurfaceInit
    /\ CaptureIdle
    /\ ShutdownIdle
    /\ RouteIdle
    /\ WebuiIdle

NextSurface == \E sample \in Samples : ProcessSurface(sample)

SpecSurface == InitSurface /\ [][NextSurface]_vars

(***************************************************************************)
(* The capture tick of the live system: AutoLiveSystem.capture_and_process *)
(* and the whole of process_surface (src/edge/auto_live_system.py).  The   *)
(* platform moves along one meridian; positions and segment_length_m are   *)
(* in grid units.                                                          *)
(***************************************************************************)

\* most capture ticks of a session
MaxTicks == 3

\* config['surface_detection']['segment_length_m'] on the grid
segment_length == 2

\* self.gps.get_current_position(): a fix, or none
NoFix == [fix |-> FALSE, lat |-> 0]
GpsFixes == { [fix |-> TRUE, lat |-> la] : la \in 1..4 } \cup {NoFix}

\* what inference returns for the frames tried
CaptureSamples ==
    { [surface_type |-> l, confidence |-> 90] : l \in {"asphalt", "gravel"} }

\* self.last_surface_check_pos = None
NoCheckPos == [set |-> FALSE, lat |-> 0]

\* geodesic(self.last_surface_check_pos, (lat, lon)).meters < segment_length
TooClose(check_pos, lat) ==
    (lat - check_pos.lat) * (lat - check_pos.lat) < segment_length * segment_length

\* `if self.last_surface_check_pos: if geodesic: if dist < segment_length`
Gated(c, lat) ==
    /\ c.last_surface_check_pos.set
    /\ c.geodesic
    /\ TooClose(c.last_surface_check_pos, lat)

\* the state of the live system after one more pass of capture_and_process
\* with this GPS answer and this inference result
capture_and_process(c, pos, sample) ==
    IF ~pos.fix
    THEN [c EXCEPT !.ticks = @ + 1,
                   !.tick = [appended |-> FALSE, sampled |-> FALSE, lat |-> 0,
                             before |-> c.run,
                             check_pos |-> c.last_surface_check_pos]]
    ELSE LET point == [latitude |-> pos.lat,
                       surface_type |-> c.run.current_surface]
             samples == c.enabled /\ ~Gated(c, pos.lat)
             run == IF samples
                    THEN process_surface(c.run, sample, c.window, c.smoothing)
                    ELSE c.run
         IN [c EXCEPT
               !.ticks = @ + 1,
               !.route_points = Append(@, point),
               !.run = run,
               !.surface_detections =
                   IF samples
                   THEN Append(@, [latitude |-> pos.lat,
                                   surface_type |-> run.current_surface,
                                   confidence |-> run.confidence])
                   ELSE @,
               !.last_surface_check_pos =
                   IF samples THEN [set |-> TRUE, lat |-> pos.lat] ELSE @,
               !.tick = [appended |-> TRUE, sampled |-> samples, lat |-> pos.lat,
                         before |-> c.run,
                         check_pos |-> c.last_surface_check_pos]]

\* AutoLiveSystem.__init__ and the configuration; tick is the record of the
\* pass made last
CaptureInit ==
    capture \in
        { [pc |-> "capturing", enabled |-> e, geodesic |-> g, smoothing |-> s,
           window |-> 3, ticks |-> 0, route_points |-> <<>>,
           surface_detections |-> <<>>, last_surface_check_pos |-> NoCheckPos,
           run |-> NewRun(o),
           tick |-> [appended |-> FALSE, sampled |-> FALSE, lat |-> 0,
                     before |-> NewRun(o), check_pos |-> NoCheckPos]] :
            e \in BOOLEAN, g \in BOOLEAN, s \in BOOLEAN, o \in HashOrders }

CaptureStep(pos, sample) ==
    /\ capture.pc = "capturing"
    /\ capture.ticks < MaxTicks
    /\ capture' = capture_and_process(capture, pos, sample)
    /\ UNCHANGED <<edgeVars, groupVars, severity, surface, shutdown, route, webui>>

InitCapture ==
    /\ EdgeIdle
    /\ GroupIdle
    /\ SeverityIdle
    /\ SurfaceIdle
    /\ ShutdownIdle
    /\ RouteIdle
    /\ WebuiIdle
    /\ CaptureInit

NextCapture == \E pos \in GpsFixes, sample \in CaptureSamples : CaptureStep(pos, sample)

SpecCapture == InitCapture /\ [][NextCapture]_vars

(***************************************************************************)
(* Route segmentation: GitHubPagesUpdater.segment_by_surface of            *)
(* src/edge/update_github_pages.py.  Route and surface detections lie on   *)
(* one meridian, on a grid whose unit is 2.5 m.                            *)
(***************************************************************************)

\* longest route and longest list of surface detections
MaxRoute == 3

\* the 5 metres of the distance check, in grid units
segment_switch_distance == 2

\* a route coordinate: [lon, lat]
RouteCoordinates == { [lon |-> 1, lat |-> la] : la \in {0, 2, 3} }

\* the entries of surfaces.json tried
SurfaceDetections ==
    { [latitude |-> la, longitude |-> 1, surface_type |-> l, confidence |-> 80] :
        la \in {0, 3}, l \in {"asphalt", "gravel"} }

\* geodesic((lat, lon), (next_surface latitude, longitude)).meters < 5
NearNextSurface(coord, next_surface) ==
    LET dlat == coord.lat - next_surface.latitude
        dlon == coord.lon - next_surface.longitude
    IN dlat * dlat + dlon * dlon
          < segment_switch_distance * segment_switch_distance

\* `# Start new segment`
StartSegment(coord, next_surface) ==
    [coordinates |-> <<coord>>,
     surface_type |-> next_surface.surface_type,
     confidence |-> next_surface.confidence]

\* `if current_segment['coordinates']: segments.append(current_segment)`
AppendIfAny(segments, current_segment) ==
    IF current_segment.coordinates # <<>>
    THEN Append(segments, current_segment) ELSE segments

\* the loop `for coord in coordinates` from the i-th coordinate on, and the
\* closing `# Add last segment`; surface_idx counts from 1
RECURSIVE WalkRoute(_, _, _, _, _, _, _)
WalkRoute(coordinates, i, surfaces, has_geodesic, segments, current_segment, surface_idx) ==
    IF i > Len(coordinates) THEN AppendIfAny(segments, current_segment)
    ELSE IF /\ surface_idx < Len(surfaces)
            /\ has_geodesic
            /\ NearNextSurface(coordinates[i], surfaces[surface_idx + 1])
         THEN WalkRoute(coordinates, i + 1, surfaces, has_geodesic,
                        AppendIfAny(segments, current_segment),
                        StartSegment(coordinates[i], surfaces[surface_idx + 1]),
                        surface_idx + 1)
         ELSE WalkRoute(coordinates, i + 1, surfaces, has_geodesic, segments,
                        [current_segment EXCEPT
                            !.coordinates = Append(@, coordinates[i])],
                        surface_idx)

\* segment_by_surface(coordinates, surfaces)
segment_by_surface(coordinates, surfaces, has_geodesic) ==
    IF surfaces = <<>>
    THEN << [coordinates |-> coordinates, surface_type |-> "unknown",
             confidence |-> 0] >>
    ELSE WalkRoute(coordinates, 1, surfaces, has_geodesic, <<>>,
                   [coordinates |-> <<>>,
                    surface_type |-> surfaces[1].surface_type,
                    confidence |-> surfaces[1].confidence],
                   1)

RouteInit ==
    route \in
        { [pc |-> "loaded", coordinates |-> cs, surfaces |-> ss,
           geodesic |-> g, segments |-> <<>>] :
            cs \in SeqsUpTo(RouteCoordinates, MaxRoute),
            ss \in SeqsUpTo(SurfaceDetections, MaxRoute),
            g \in BOOLEAN }

\* generate_route_geojson segments the route of the session
SegmentBySurface ==
    /\ route.pc = "loaded"
    /\ route' = [route EXCEPT
                    !.pc = "segmented",
                    !.segments = segment_by_surface(route.coordinates,
                                                    route.surfaces,
                                                    route.geodesic)]
    /\ UNCHANGED <<edgeVars, groupVars, severity, surface, capture, shutdown, webui>>

InitRoute ==
    /\ EdgeIdle
    /\ GroupIdle
    /\ SeverityIdle
    /\ SurfaceIdle
    /\ CaptureIdle
    /\ ShutdownIdle
    /\ RouteInit
    /\ WebuiIdle

NextRoute == SegmentBySurface

SpecRoute == InitRoute /\ [][NextRoute]_vars

(***************************************************************************)
(* Shutdown of the live system: AutoLiveSystem.run, cleanup and            *)
(* upload_worker of src/edge/auto_live_system.py.  The main thread and the *)
(* upload thread take their steps in any order.                            *)
(***************************************************************************)

\* most items put into upload_queue during one session
MaxQueue == 3

\* run() has initialised the components, set running and, in live upload
\* mode, started the upload thread
ShutdownInit ==
    shutdown \in
        { [pc |-> "capturing", running |-> TRUE, live |-> l, queue |-> 0,
           unfinished |-> 0, put |-> 0,
           worker |-> IF l THEN "top" ELSE "none", after_stop |-> 0] :
            l \in BOOLEAN }

OtherThanShutdown == <<edgeVars, groupVars, severity, surface, capture, route, webui>>

\* one pass of `while self.running` in run(): capture_and_process() puts the
\* damages it found into upload_queue when the upload mode is live
CaptureAndProcess(damages) ==
    /\ shutdown.pc = "capturing"
    /\ shutdown.running
    /\ shutdown.put + damages <= MaxQueue
    /\ shutdown' = IF shutdown.live
                   THEN [shutdown EXCEPT !.queue = @ + damages,
                                         !.unfinished = @ + damages,
                                         !.put = @ + damages]
                   ELSE [shutdown EXCEPT !.put = @ + damages]
    /\ UNCHANGED OtherThanShutdown

\* Ctrl+C: KeyboardInterrupt leaves the loop; `finally` enters cleanup(),
\* whose first statement clears running
KeyboardInterrupt ==
    /\ shutdown.pc = "capturing"
    /\ shutdown' = [shutdown EXCEPT !.pc = "cleanup", !.running = FALSE]
    /\ UNCHANGED OtherThanShutdown

\* `if self.upload_thread and self.upload_thread.is_alive()`
CleanupCheckThread ==
    /\ shutdown.pc = "cleanup"
    /\ shutdown' = [shutdown EXCEPT
                      !.pc = IF shutdown.worker \in {"top", "get", "got"}
                             THEN "join" ELSE "save"]
    /\ UNCHANGED OtherThanShutdown

\* upload_queue.join() returns once every put has had its task_done
QueueJoin ==
    /\ shutdown.pc = "join"
    /\ shutdown.unfinished = 0
    /\ shutdown' = [shutdown EXCEPT !.pc = "save"]
    /\ UNCHANGED OtherThanShutdown

\* save_session_data(), print_summary(), release of camera and GPS
CleanupSave ==
    /\ shutdown.pc = "save"
    /\ shutdown' = [shutdown EXCEPT !.pc = "done"]
    /\ UNCHANGED OtherThanShutdown

\* upload_worker: the test of `while self.running`
WorkerTestRunning ==
    /\ shutdown.worker = "top"
    /\ shutdown' = [shutdown EXCEPT
                      !.worker = IF shutdown.running THEN "get" ELSE "exited"]
    /\ UNCHANGED OtherThanShutdown

\* upload_queue.get(timeout=1.0): an item, or queue.Empty and `continue`
WorkerGet ==
    /\ shutdown.worker = "get"
    /\ shutdown' = IF shutdown.queue > 0
                   THEN [shutdown EXCEPT
                           !.queue = @ - 1,
                           !.worker = "got",
                           !.after_stop = IF shutdown.running THEN @ ELSE @ + 1]
                   ELSE [shutdown EXCEPT !.worker = "top"]
    /\ UNCHANGED OtherThanShutdown

\* the body of the try block: task_done() is its last statement, and
\* `except Exception` only logs
WorkerProcess(raised) ==
    /\ shutdown.worker = "got"
    /\ shutdown' = [shutdown EXCEPT
                      !.unfinished = IF raised THEN @ ELSE @ - 1,
                      !.worker = "top"]
    /\ UNCHANGED OtherThanShutdown

InitShutdown ==
    /\ EdgeIdle
    /\ GroupIdle
    /\ SeverityIdle
    /\ SurfaceIdle
    /\ CaptureIdle
    /\ RouteIdle
    /\ WebuiIdle
    /\ ShutdownInit

UploadThread ==
    \/ WorkerTestRunning
    \/ WorkerGet
    \/ \E raised \in BOOLEAN : WorkerProcess(raised)

NextShutdown ==
    \/ \E damages \in 0..2 : CaptureAndProcess(damages)
    \/ KeyboardInterrupt
    \/ CleanupCheckThread
    \/ QueueJoin
    \/ CleanupSave
    \/ WorkerTestRunning
    \/ WorkerGet
    \/ \E raised \in BOOLEAN : WorkerProcess(raised)

\* both threads keep being scheduled; when Ctrl+C arrives is up to the rider
SpecShutdown ==
    /\ InitShutdown
    /\ [][NextShutdown]_vars
    /\ WF_vars(CleanupCheckThread)
    /\ WF_vars(QueueJoin)
    /\ WF_vars(CleanupSave)
    /\ WF_vars(UploadThread)

(***************************************************************************)
(* Properties of the damage grouping (SpecGroup)                           *)
(***************************************************************************)

\* the squared distance of (lat, lon) to a centre, as numerator and denominator
Dist2(lat, lon, center) ==
    LET dlat == lat * center.n - center.lat
        dlon == lon * center.n - center.lon
    IN [num |-> dlat * dlat + dlon * dlon, den |-> center.n * center.n]

Nearer(a, b) == a.num * b.den < b.num * a.den

\* C10: a damage event within cluster_radius_m of the centroids of two or more
\* clusters of its type is attached to the cluster whose centroid is nearest,
\* not to the earliest-created one that qualifies.
C10_AttachedToNearest ==
    (visit.op = "visit" /\ ~Skipped(visit.detection))
    => LET d == visit.detection
           qualifying == { i \in DOMAIN visit.before :
                             Matches(visit.before[i], d.gps.latitude,
                                     d.gps.longitude, d.class) }
       IN Cardinality(qualifying) >= 2 =>
            \A k \in qualifying :
                Len(groups[k].detections) > Len(visit.before[k].detections)
                => \A j \in qualifying :
                      ~Nearer(Dist2(d.gps.latitude, d.gps.longitude,
                                    visit.before[j].center),
                              Dist2(d.gps.latitude, d.gps.longitude,
                                    visit.before[k].center))

\* C11: no cluster holds events of more than one damage type, however close
\* the events lie: in group_detections after every step, every member of a
\* group has the group's damage_type, and every group returned by
\* group_damages holds one damage_type only.
C11_OneTypePerCluster ==
    /\ \A g \in Range(groups) :
          \A m \in Range(g.detections) : m.class = g.damage_type
    /\ pages.pc = "done" =>
          \A g \in Range(pages.groups) :
              \A m1, m2 \in Range(g) : m1.damage_type = m2.damage_type

\* C11 witness: two events of different types at one position, and both
\* groupings have formed a cluster of two or more events.
C11_SamePlaceOtherTypeWitness ==
    /\ pages.pc = "done"
    /\ pages.geodesic
    /\ \E i, j \in DOMAIN detections :
          /\ detections[i].gps = detections[j].gps
          /\ detections[i].class # detections[j].class
          /\ ~Skipped(detections[i])
    /\ \E g \in Range(groups) : Len(g.detections) >= 2
    /\ \E g \in Range(pages.groups) : Len(g) >= 2

\* the distance of (lat, lon) to a centre is exactly r, or more than r
ExactlyAt(lat, lon, center, r) ==
    Dist2(lat, lon, center).num = r * r * Dist2(lat, lon, center).den

Beyond(lat, lon, center, r) ==
    Dist2(lat, lon, center).num > r * r * Dist2(lat, lon, center).den

\* The radius boundary in group_detections: a detection (with non-zero
\* coordinates) exactly max_distance away from the centre of a group of its
\* type is added to a group of its type whose centre is within max_distance;
\* one further than max_distance from every such centre opens a new group.
RadiusBoundaryInGroupDetections ==
    (visit.op = "visit" /\ ~Skipped(visit.detection))
    => LET d == visit.detection
           same == { k \in DOMAIN visit.before :
                        visit.before[k].damage_type = d.class }
       IN /\ (\E k \in same : ExactlyAt(d.gps.latitude, d.gps.longitude,
                                        visit.before[k].center, max_distance))
             => /\ Len(groups) = Len(visit.before)
                /\ \E k \in same :
                      /\ ~Beyond(d.gps.latitude, d.gps.longitude,
                                 visit.before[k].center, max_distance)
                      /\ groups[k].detections
                            = Append(visit.before[k].detections, d)
          /\ (\A k \in same : Beyond(d.gps.latitude, d.gps.longitude,
                                     visit.before[k].center, max_distance))
             => /\ Len(groups) = Len(visit.before) + 1
                /\ groups[Len(groups)].detections = <<d>>
                /\ SubSeq(groups, 1, Len(visit.before)) = visit.before

\* The radius boundary in group_damages: a damage that opens a group is not
\* exactly group_radius_m away from the centre of a group of its type that
\* was completed before (it would have been attached to it).
RadiusBoundaryInGroupDamages ==
    (pages.pc = "done" /\ pages.geodesic)
    => \A g2 \in DOMAIN pages.groups : \A g1 \in 1..(g2 - 1) :
          pages.groups[g1][1].damage_type = pages.groups[g2][1].damage_type
          => ~ExactlyAt(pages.groups[g2][1].latitude,
                        pages.groups[g2][1].longitude,
                        avg_position(pages.groups[g1]), group_radius_m)

\* C12: an event exactly cluster_radius_m away from the centroid of a cluster
\* of its type is attached, and an event further than cluster_radius_m from
\* every centroid of its type starts a new cluster, in both grouping code
\* paths.
C12_RadiusBoundary ==
    RadiusBoundaryInGroupDetections /\ RadiusBoundaryInGroupDamages

\* group_detections has visited a detection exactly max_distance away from
\* the centre of a group of its type
AtRadiusVisited ==
    /\ visit.op = "visit"
    /\ ~Skipped(visit.detection)
    /\ \E k \in DOMAIN visit.before :
          /\ visit.before[k].damage_type = visit.detection.class
          /\ Len(visit.before[k].detections) >= 2
          /\ ExactlyAt(visit.detection.gps.latitude,
                       visit.detection.gps.longitude,
                       visit.before[k].center, max_distance)

\* the sums of the latitudes and of the longitudes of a list of detections
RECURSIVE LatitudeSum(_)
LatitudeSum(members) ==
    IF members = <<>> THEN 0
    ELSE Head(members).gps.latitude + LatitudeSum(Tail(members))

RECURSIVE LongitudeSum(_)
LongitudeSum(members) ==
    IF members = <<>> THEN 0
    ELSE Head(members).gps.longitude + LongitudeSum(Tail(members))

\* C13: after each detection is processed by group_detections (and at every
\* other step), every group has at least one member and its centre
\* (center.lat / center.n, center.lon / center.n) is the arithmetic mean of
\* the latitudes and of the longitudes of its current members.
C13_CentroidIsMeanOfMembers ==
    \A g \in Range(groups) :
        /\ Len(g.detections) >= 1
        /\ g.center.n >= 1
        /\ g.center.lat * Len(g.detections)
              = LatitudeSum(g.detections) * g.center.n
        /\ g.center.lon * Len(g.detections)
              = LongitudeSum(g.detections) * g.center.n

\* C13 witness: the detection just processed joined a group that now has
\* three members at three different places.
C13_ThreeMembersWitness ==
    /\ visit.op = "visit"
    /\ \E k \in DOMAIN visit.before :
          /\ Len(groups[k].detections) = 3
          /\ Len(visit.before[k].detections) = 2
          /\ Cardinality({ d.gps : d \in Range(groups[k].detections) }) = 3

\* the rearrangements of 1..n
Rearrangements(n) ==
    { p \in [1..n -> 1..n] : \A i, j \in 1..n : p[i] = p[j] => i = j }

DistinctTimestamps(ds) ==
    \A i, j \in DOMAIN ds : ds[i].timestamp = ds[j].timestamp => i = j

\* C14: for a list with pairwise distinct timestamps the groups returned
\* (members, their order and the order of creation) are those returned for
\* every rearrangement of the list; and the loop visits the detections by
\* ascending timestamp, those with the same timestamp in the order of their
\* index in the list.
C14_OrderOfArrivalIrrelevant ==
    /\ (gpc = "done" /\ DistinctTimestamps(detections))
       => \A p \in Rearrangements(Len(detections)) :
             group_detections([i \in DOMAIN detections |-> detections[p[i]]])
                = groups
    /\ (visit.op = "enter" /\ detections # <<>>)
       => \E p \in Rearrangements(Len(detections)) :
             /\ pending = [i \in DOMAIN detections |-> detections[p[i]]]
             /\ \A i, j \in DOMAIN pending :
                   i < j => \/ pending[i].timestamp < pending[j].timestamp
                            \/ /\ pending[i].timestamp = pending[j].timestamp
                               /\ p[i] < p[j]

\* C14 witness: three detections with distinct timestamps have been grouped,
\* and visiting them in their order of arrival would have given other groups.
C14_ArrivalOrderMattersWitness ==
    /\ gpc = "done"
    /\ Len(detections) = 3
    /\ DistinctTimestamps(detections)
    /\ CloseGroups(VisitAll(<<>>, detections)) # groups

\* C15: the two grouping code paths agree: on a list that is already in
\* timestamp order and has no zero coordinate, with geopy installed,
\* group_damages returns the groups of group_detections, with the same
\* members and in the same order of creation.
C15_BothGroupingsAgree ==
    (/\ gpc = "done"
     /\ pages.pc = "done"
     /\ pages.geodesic
     /\ SortByTimestamp(detections) = detections
     /\ \A d \in Range(detections) : ~Skipped(d))
    => pages.groups
          = [k \in DOMAIN groups |->
                [i \in DOMAIN groups[k].detections |->
                    Damage(groups[k].detections[i])]]

\* The input of scenario A, o being the index of the event of the other type:
\* all other events are of one type and pairwise within half of the radius,
\* and the event at o is further than the radius from each of them.
ScenarioA(ds, o) ==
    LET rest == DOMAIN ds \ {o}
        Apart2(i, j) ==
            (ds[i].gps.latitude - ds[j].gps.latitude)
               * (ds[i].gps.latitude - ds[j].gps.latitude)
            + (ds[i].gps.longitude - ds[j].gps.longitude)
               * (ds[i].gps.longitude - ds[j].gps.longitude)
    IN /\ o \in DOMAIN ds
       /\ rest # {}
       /\ \A i \in rest : ds[i].class # ds[o].class
       /\ \A i, j \in rest :
             /\ ds[i].class = ds[j].class
             /\ 4 * Apart2(i, j) <= max_distance * max_distance
       /\ \A i \in rest : Apart2(i, o) > max_distance * max_distance

\* two clusters, given as their lists of members: one is the event at o, the
\* other holds the n other events
TwoClusters(members, ds, o) ==
    /\ Len(members) = 2
    /\ \E a, b \in 1..2 :
          /\ a # b
          /\ members[a] = <<ds[o]>>
          /\ Len(members[b]) = Len(ds) - 1
          /\ Range(members[b]) = { ds[i] : i \in DOMAIN ds \ {o} }

\* C16: n >= 1 events of one type lying pairwise within half of the radius,
\* plus one event of another type far outside the radius, give exactly two
\* clusters in both grouping code paths (group_damages with geopy installed):
\* one with the n events, one with the single other event.
C16_ScenarioATwoClusters ==
    (gpc = "done" /\ pages.pc = "done" /\ pages.geodesic)
    => \A o \in DOMAIN detections :
          ScenarioA(detections, o)
          => /\ TwoClusters([k \in DOMAIN groups |-> groups[k].detections],
                            detections, o)
             /\ TwoClusters(pages.groups,
                            [i \in DOMAIN detections |-> Damage(detections[i])], o)

(***************************************************************************)
(* Properties of the severity classifiers (SpecSeverity)                   *)
(***************************************************************************)

\* low < medium < high
SeverityRank(s) == IF s = "low" THEN 1 ELSE IF s = "medium" THEN 2 ELSE 3

\* C17: for a fixed damage type, image count and threshold table, raising the
\* confidence never lowers the severity, in calculate_severity and in
\* _calculate_severity.
C17_SeverityMonotoneInConfidence ==
    severity.lower <= severity.higher
    => /\ severity.live # NotClassified
          => SeverityRank(severity.live.lower) <= SeverityRank(severity.live.higher)
       /\ severity.grouped # NotClassified
          => SeverityRank(severity.grouped.lower)
                <= SeverityRank(severity.grouped.higher)

\* C17 witness: both classifiers have been applied, under a table whose entry
\* for the type has its thresholds the wrong way round, and both returned a
\* higher severity for the higher confidence.
C17_RaisedSeverityWitness ==
    /\ severity.live # NotClassified
    /\ severity.grouped # NotClassified
    /\ severity.rules[severity.damage_type] = Thresholds(TRUE, 60, TRUE, 80)
    /\ severity.lower < severity.higher
    /\ SeverityRank(severity.live.lower) < SeverityRank(severity.live.higher)
    /\ SeverityRank(severity.grouped.lower) < SeverityRank(severity.grouped.higher)

\* the default rule: high from 0.85, medium from 0.70, low below
DefaultRule(confidence) ==
    IF confidence >= 85 THEN "high"
    ELSE IF confidence >= 70 THEN "medium"
    ELSE "low"

\* C18: for a damage type without a rule of its own (no entry in
\* severity_rules for calculate_severity; neither pothole nor crack for
\* _calculate_severity) each classifier returns what the default rule gives.
C18_DefaultRuleEverywhere ==
    /\ (severity.live # NotClassified /\ ~severity.rules[severity.damage_type].present)
       => /\ severity.live.lower = DefaultRule(severity.lower)
          /\ severity.live.higher = DefaultRule(severity.higher)
    /\ (severity.grouped # NotClassified /\ severity.damage_type \notin {"pothole", "crack"})
       => /\ severity.grouped.lower = DefaultRule(severity.lower)
          /\ severity.grouped.higher = DefaultRule(severity.higher)

(***************************************************************************)
(* Properties of the surface smoothing (SpecSurface)                       *)
(***************************************************************************)

\* the most recent min(n, k) of n samples
MostRecent(samples, k) ==
    IF Len(samples) <= k THEN samples
    ELSE SubSeq(samples, Len(samples) - k + 1, Len(samples))

\* the label of highest count in a window, the earliest-appearing one of
\* those that tie
EarliestOfHighestCount(window) ==
    LET best == { i \in DOMAIN window :
                    \A j \in DOMAIN window :
                       Count(window, window[j].surface_type)
                          <= Count(window, window[i].surface_type) }
    IN window[CHOOSE i \in best : \A j \in best : i <= j].surface_type

\* C19: with smoothing on, the resolved label after a sample is the label of
\* highest count among the most recent min(n, smoothing_window) samples,
\* and of several such labels the one that appears earliest in the window.
C19_MajorityVoteEarliestWins ==
    (surface.smoothing /\ surface.fed # <<>>)
    => surface.runs[1].current_surface
          = EarliestOfHighestCount(MostRecent(surface.fed, surface.window))

\* C20: two runs fed the same samples resolve the same label and the same
\* confidence after every sample, also when labels tie in the window.
C20_SameSamplesSameOutput ==
    /\ surface.runs[1].current_surface = surface.runs[2].current_surface
    /\ surface.runs[1].confidence.sum * surface.runs[2].confidence.n
          = surface.runs[2].confidence.sum * surface.runs[1].confidence.n

(***************************************************************************)
(* Properties of the route segmentation (SpecRoute)                        *)
(***************************************************************************)

\* the coordinates of all segments, one after the other
RECURSIVE Concatenated(_)
Concatenated(segments) ==
    IF segments = <<>> THEN <<>>
    ELSE Head(segments).coordinates \o Concatenated(Tail(segments))

\* the same, but a segment's first coordinate is dropped when it repeats the
\* last coordinate of the segment before it (the shared boundary point)
RECURSIVE JoinedAtBoundaries(_)
JoinedAtBoundaries(segments) ==
    IF Len(segments) <= 1 THEN Concatenated(segments)
    ELSE LET first == segments[1].coordinates
             second == segments[2].coordinates
             shared == /\ first # <<>>
                       /\ second # <<>>
                       /\ first[Len(first)] = second[1]
         IN first \o JoinedAtBoundaries(
                        <<[segments[2] EXCEPT
                             !.coordinates = IF shared THEN Tail(second)
                                             ELSE second]>>
                        \o SubSeq(segments, 3, Len(segments)))

\* C21: the segments' coordinates, put one after the other with the boundary
\* point that adjacent segments share dropped, are the route: no point is
\* dropped, duplicated or reordered.
C21_JoinedSegmentsAreRoute ==
    route.pc = "segmented"
    => JoinedAtBoundaries(route.segments) = route.coordinates

\* What segment_by_surface does instead: every route point goes into exactly
\* one segment, so the coordinates put one after the other as they are give
\* the route, and adjacent segments have no point in common by position in
\* the route.
ConcatenatedSegmentsAreRoute ==
    route.pc = "segmented"
    => Concatenated(route.segments) = route.coordinates

\* C22: no two adjacent segments carry the same surface label (every segment
\* is a maximal run of one label).
C22_AdjacentSegmentsDiffer ==
    route.pc = "segmented"
    => \A k \in 1..(Len(route.segments) - 1) :
          route.segments[k].surface_type # route.segments[k + 1].surface_type

(***************************************************************************)
(* Properties of the shutdown (SpecShutdown)                               *)
(***************************************************************************)

\* C23: after the stop signal the capture loop makes no further pass, the
\* upload worker takes at most the item of the pass it is in, and cleanup
\* eventually returns, whatever is still queued and whether or not an item
\* raised.
C23_ShutdownCompletes ==
    /\ [](shutdown.pc # "capturing" => shutdown.after_stop <= 1)
    /\ (shutdown.pc = "cleanup") ~> (shutdown.pc = "done")

\* The loops do stop within one pass of the stop signal.
LoopsStopWithinOneIteration ==
    shutdown.pc # "capturing" => shutdown.after_stop <= 1

\* cleanup returns when nothing was ever queued for the upload thread.
CleanupReturnsWithoutUploads ==
    (shutdown.pc = "cleanup" /\ shutdown.unfinished = 0 /\ shutdown.worker # "got")
        ~> (shutdown.pc = "done")

(***************************************************************************)
(* Properties of invalid detections (SpecInvalid)                          *)
(***************************************************************************)

\* C24: a detection with an out-of-range latitude is dropped on its own: the
\* groups returned are those of the list without it.
C24_InvalidEventDroppedAlone ==
    gpc = "done" => groups = group_detections(SelectSeq(detections, InRange))

(***************************************************************************)
(* Properties of the pipeline on a full backup volume (SpecDisk)           *)
(***************************************************************************)

\* C25: when the backup cannot be written during a periodic upload, the
\* session keeps running, every buffered event stays in the buffer, and a
\* degraded-mode flag becomes set: some attribute of the system changes.
C25_DiskFullSetsDegradedFlag ==
    [][last'.op = "disk_full"
       => /\ running' /\ pc' = "session"
          /\ Range(session_data) \subseteq Range(session_data')
          /\ EdgeAttributes' # EdgeAttributes]_vars

\* The part of C25 that holds: the capture loop keeps running, the next
\* capture tick can append, and no buffered event is discarded.
DiskFullKeepsBuffering ==
    last.op = "disk_full"
    => /\ running /\ pc = "session"
       /\ session_data = last.before
       /\ (now < MaxTime => \A f \in Frames : ENABLED CaptureTick(f))

(***************************************************************************)
(* Properties of the capture tick (SpecCapture)                            *)
(***************************************************************************)

LastPoint == capture.route_points[Len(capture.route_points)]

\* C26: the route point appended by a tick carries the label the smoother
\* resolved in that tick: a point at which a sample was taken carries the
\* label resolved from that sample, and no point recorded once a sample
\* exists has an empty label.
C26_PointCarriesResolvedLabel ==
    capture.tick.appended
    => /\ LastPoint.surface_type = capture.run.current_surface
       /\ (capture.surface_detections # <<>> => LastPoint.surface_type # None)

\* What the code gives: the point carries the label current before the tick.
PointCarriesLabelBeforeTick ==
    capture.tick.appended
    => LastPoint.surface_type = capture.tick.before.current_surface

\* C27: a tick takes a sample only if there is none yet or the position is
\* at least segment_length from the position of the last sample; a gated
\* tick leaves the window, the label and the last-sample position as they
\* were.
C27_SampleOnlyBeyondSegmentLength ==
    /\ capture.tick.sampled
         => \/ ~capture.tick.check_pos.set
            \/ ~TooClose(capture.tick.check_pos, capture.tick.lat)
    /\ (capture.tick.appended /\ ~capture.tick.sampled)
         => /\ capture.run = capture.tick.before
            /\ capture.last_surface_check_pos = capture.tick.check_pos

\* C27 holds when geopy is installed.
SampleOnlyBeyondSegmentLengthWithGeopy ==
    capture.geodesic => C27_SampleOnlyBeyondSegmentLength

(***************************************************************************)
(* Properties of the reported severity (SpecReport, SpecSeverity)          *)
(***************************************************************************)

\* the member confidences of which none is larger
IsBest(members, c) ==
    /\ \E i \in DOMAIN members : members[i].confidence = c
    /\ \A i \in DOMAIN members : members[i].confidence <= c

C29_PotholeRule ==
    (severity.damage_type = "pothole" /\ severity.grouped # NotClassified)
    => /\ severity.grouped.lower = "high"
            <=> (severity.lower > 80 \/ severity.image_count >= 3)
       /\ severity.grouped.lower = "medium"
            <=> (~(severity.lower > 80 \/ severity.image_count >= 3)
                 /\ severity.lower > 60)
       /\ severity.grouped.lower = "low"
            <=> (~(severity.lower > 80 \/ severity.image_count >= 3)
                 /\ severity.lower <= 60)
       /\ \A fewer \in 1..severity.image_count :
             SeverityRank(group_severity("pothole", severity.lower, fewer))
                <= SeverityRank(severity.grouped.lower)

\* C29 witness: a pothole cluster of 3 members with a confidence of 0.6 or
\* less was classified high, on its evidence alone.
C29_HighByEvidenceWitness ==
    /\ severity.damage_type = "pothole"
    /\ severity.image_count = 3
    /\ severity.lower <= 60
    /\ severity.grouped # NotClassified
    /\ severity.grouped.lower = "high"

(***************************************************************************)
(* Properties of the clusters' identity (SpecGroup)                        *)
(***************************************************************************)

\* how often the detection is a member
CountIn(members, d) == Cardinality({ j \in DOMAIN members : members[j] = d })

\* C30: at every step of group_detections the clusters are numbered 1..k in
\* the order of their creation, and the step keeps every cluster there was,
\* at its place, with its id, its type and all its members.
C30_ClustersKeptInCreationOrder ==
    [][/\ \A i \in DOMAIN groups' : groups'[i].id = i
       /\ \A i, j \in DOMAIN groups' :
             i <= j => groups'[i].created <= groups'[j].created
       /\ Len(groups') >= Len(groups)
       /\ \A i \in DOMAIN groups :
             /\ groups'[i].id = groups[i].id
             /\ groups'[i].damage_type = groups[i].damage_type
             /\ groups'[i].created = groups[i].created
             /\ \A d \in Range(groups[i].detections) :
                   CountIn(groups'[i].detections, d)
                      >= CountIn(groups[i].detections, d)]_vars

\* C30 witness: with two clusters there, a detection joined the first one
\* and both were returned.
C30_TwoClustersReturnedWitness ==
    /\ gpc = "done"
    /\ Len(groups) = 2
    /\ Len(groups[1].detections) = 2
    /\ groups[1].detections[2].timestamp >= groups[2].created

(***************************************************************************)
(* Properties of the clusters' membership and statistics (SpecGroup)       *)
(***************************************************************************)

\* the number of members of all groups together
RECURSIVE TotalMembers(_)
TotalMembers(gs) ==
    IF gs = <<>> THEN 0
    ELSE Len(Head(gs).detections) + TotalMembers(Tail(gs))

\* how often the detection is a member of some group
RECURSIVE MembershipCount(_, _)
MembershipCount(gs, d) ==
    IF gs = <<>> THEN 0
    ELSE CountIn(Head(gs).detections, d) + MembershipCount(Tail(gs), d)

\* C31: every input detection with a latitude and a longitude, 0 included,
\* is a member of exactly one returned cluster: the sizes sum to the number
\* of detections and each detection is a member as often as it is in the
\* input.
C31_EveryDetectionInOneCluster ==
    gpc = "done"
    => /\ TotalMembers(groups) = Len(detections)
       /\ \A d \in DetectionInputs :
             MembershipCount(groups, d) = CountIn(detections, d)

\* What holds instead: exactly the detections with non-zero coordinates are
\* members, each once.
EveryNonZeroDetectionInOneCluster ==
    gpc = "done"
    => \A d \in DetectionInputs :
          MembershipCount(groups, d)
             = IF Skipped(d) THEN 0 ELSE CountIn(detections, d)

\* the exact sum of the members' confidences
RECURSIVE ExactSum(_)
ExactSum(members) ==
    IF members = <<>> THEN 0
    ELSE Confidence(Head(members)) + ExactSum(Tail(members))

\* avg is the mean of the members' confidences up to the rounding of the
\* additions and of the division: a relative error of at most
\* (n + 1) * 2^-mantissa_bits
MeanUpToRounding(avg, members) ==
    LET n == Len(members)
        sum == ExactSum(members)
        error == IF n * avg >= sum THEN n * avg - sum ELSE sum - n * avg
    IN error * Pow2(mantissa_bits) <= (n + 1) * sum

\* the statistics of a group other than the relation of best and average
StatisticsOf(g) ==
    /\ g.image_count = Len(g.detections)
    /\ \E i \in DOMAIN g.detections :
          g.best_confidence = Confidence(g.detections[i])
    /\ \A i \in DOMAIN g.detections :
          g.best_confidence >= Confidence(g.detections[i])
    /\ MeanUpToRounding(g.avg_confidence, g.detections)
    /\ \A i, j \in DOMAIN g.detections :
          i <= j => g.detections[i].timestamp <= g.detections[j].timestamp
    /\ g.first_seen = g.detections[1].timestamp
    /\ g.last_seen = g.detections[Len(g.detections)].timestamp
    /\ g.first_seen <= g.last_seen

\* C32: for every cluster returned by group_detections, image_count is the
\* number of members, best_confidence the maximum and avg_confidence the
\* mean of the member confidences, so that best_confidence >= avg_confidence;
\* the members are in timestamp order and first_seen <= last_seen are the
\* timestamps of the first and the last of them.
C32_GroupStatistics ==
    gpc = "done"
    => \A k \in DOMAIN groups :
          /\ StatisticsOf(groups[k])
          /\ groups[k].best_confidence >= groups[k].avg_confidence

\* C32 amended: the same, with avg_confidence the mean as floating-point
\* arithmetic gives it: equal to the mean up to rounding, and so possibly
\* above best_confidence by the rounding error.
C32_GroupStatisticsUpToRounding ==
    gpc = "done" => \A k \in DOMAIN groups : StatisticsOf(groups[k])

\* C32 witness: a cluster of three members was returned whose average
\* confidence is above its best one.
C32_AverageAboveBestWitness ==
    /\ gpc = "done"
    /\ \E k \in DOMAIN groups :
          /\ groups[k].image_count = 3
          /\ groups[k].avg_confidence > groups[k].best_confidence

(***************************************************************************)
(* Further properties of the route segmentation (SpecRoute)                *)
(***************************************************************************)

\* C33: for a route of two or more points every segment, and so every
\* LineString feature of the route GeoJSON, has at least two coordinates.
C33_SegmentsHaveTwoCoordinates ==
    (route.pc = "segmented" /\ Len(route.coordinates) >= 2)
    => \A k \in DOMAIN route.segments :
          Len(route.segments[k].coordinates) >= 2

\* What holds instead: no segment is empty.
SegmentsAreNotEmpty ==
    (route.pc = "segmented" /\ route.coordinates # <<>>)
    => \A k \in DOMAIN route.segments : route.segments[k].coordinates # <<>>

(***************************************************************************)
(* Further properties of the upload / backup pipeline (Spec)               *)
(***************************************************************************)

\* C34: when the final delivery of cleanup fails, the remaining buffer is
\* written to a backup exactly once: one write, and no two backup files
\* written by cleanup hold the same events.
C34_FinalBackupWrittenOnce ==
    (last.op = "cleanup" /\ last.attempted /\ last.outcome # "ok")
    => /\ Len(last.written) + Len(last.final_written) = 1
       /\ \A i \in DOMAIN last.written, j \in DOMAIN last.final_written :
             last.written[i].data # last.final_written[j].data

\* What cleanup does: the except clause of upload_to_cloud writes the buffer
\* and, the buffer being kept, cleanup's own save_local_backup writes it
\* again.
FinalBackupWrittenTwice ==
    (last.op = "cleanup" /\ last.attempted /\ last.outcome # "ok")
    => /\ Len(last.written) = 1
       /\ Len(last.final_written) = 1
       /\ last.written[1].data = last.final_written[1].data

(***************************************************************************)
(* The Flask application of src/edge/web_ui.py (SpecWeb).  app.run serves  *)
(* every request in a thread of its own, so the handlers interleave        *)
(* between their statements; a with camera_lock block is one step.         *)
(***************************************************************************)

\* request threads serving /api/start and /api/stop at the same time
MaxRequests == 2
\* subprocess.Popen calls in one run
MaxLaunches == 2

WebThreads == 1 .. MaxRequests

\* the value None of state['process'], state['start_time'], state['output_dir']
NoValue == 0

\* how many *.jpg files the images directory holds when stop_capture counts
ImageCounts == {0, 1}

\* the module-level dictionary state
WebState ==
    [is_running |-> FALSE,
     process |-> NoValue,
     start_time |-> NoValue,
     output_dir |-> NoValue,
     stats |-> [images |-> 0, distance |-> 0]]

\* a request thread between two requests
ThreadIdle == [pc |-> "idle", response |-> "none"]

\* the module after import, the browser showing the video feed
WebInit ==
    webui = [pc |-> "serving",
             state |-> WebState,
             camera |-> "None",
             processes |-> {},
             launches |-> 0,
             thread |-> [t \in WebThreads |-> ThreadIdle],
             stream |-> "loop",
             last |-> [op |-> "none", response |-> "none", state |-> WebState,
                       processes |-> {}]]

\* the history of a step: the handler, its answer, what it found
Served(op, response) ==
    [op |-> op, response |-> response, state |-> webui.state,
     processes |-> webui.processes]

\* start_capture up to the test of state['is_running']
StartCheck(t) ==
    /\ webui.pc = "serving"
    /\ webui.thread[t].pc = "idle"
    /\ webui.launches < MaxLaunches
    /\ IF webui.state.is_running
       THEN webui' = [webui EXCEPT
                !.thread[t] = [pc |-> "idle", response |-> "Already running"],
                !.last = Served("start_capture", "Already running")]
       ELSE webui' = [webui EXCEPT
                !.thread[t] = [pc |-> "release", response |-> "none"],
                !.last = Served("start_capture", "none")]
    /\ UNCHANGED <<edgeVars, groupVars, severity, surface, capture, shutdown, route>>

\* start_capture: with camera_lock, release the camera of the stream
StartRelease(t) ==
    /\ webui.pc = "serving"
    /\ webui.thread[t].pc = "release"
    /\ webui' = [webui EXCEPT
            !.camera = "None",
            !.thread[t].pc = "popen",
            !.last = Served("start_capture", "none")]
    /\ UNCHANGED <<edgeVars, groupVars, severity, surface, capture, shutdown, route>>

\* start_capture: the output directory and subprocess.Popen; an exception
\* leaves through the except clause with state['output_dir'] already set
StartPopen(t, raised) ==
    /\ webui.pc = "serving"
    /\ webui.thread[t].pc = "popen"
    /\ LET pid == webui.launches + 1 IN
       IF raised
       THEN webui' = [webui EXCEPT
                !.state.output_dir = pid,
                !.launches = pid,
                !.thread[t] = [pc |-> "idle", response |-> "error"],
                !.last = Served("start_capture", "error")]
       ELSE webui' = [webui EXCEPT
                !.state.output_dir = pid,
                !.state.process = pid,
                !.processes = @ \cup {pid},
                !.launches = pid,
                !.thread[t].pc = "set",
                !.last = Served("start_capture", "none")]
    /\ UNCHANGED <<edgeVars, groupVars, severity, surface, capture, shutdown, route>>

\* start_capture: is_running, start_time, stats and the answer
StartSet(t) ==
    /\ webui.pc = "serving"
    /\ webui.thread[t].pc = "set"
    /\ webui' = [webui EXCEPT
            !.state.is_running = TRUE,
            !.state.start_time = webui.launches,
            !.state.stats = [images |-> 0, distance |-> 0],
            !.thread[t] = [pc |-> "idle", response |-> "success"],
            !.last = Served("start_capture", "success")]
    /\ UNCHANGED <<edgeVars, groupVars, severity, surface, capture, shutdown, route>>

\* stop_capture up to the test of state['is_running']
StopCheck(t) ==
    /\ webui.pc = "serving"
    /\ webui.thread[t].pc = "idle"
    /\ IF ~webui.state.is_running
       THEN webui' = [webui EXCEPT
                !.thread[t] = [pc |-> "idle", response |-> "Not running"],
                !.last = Served("stop_capture", "Not running")]
       ELSE webui' = [webui EXCEPT
                !.thread[t] = [pc |-> "kill", response |-> "none"],
                !.last = Served("stop_capture", "none")]
    /\ UNCHANGED <<edgeVars, groupVars, severity, surface, capture, shutdown, route>>

\* stop_capture: SIGINT, wait, kill for the process state['process'] names,
\* if it names one that has not ended
StopKill(t) ==
    /\ webui.pc = "serving"
    /\ webui.thread[t].pc = "kill"
    /\ webui' = [webui EXCEPT
            !.processes = IF webui.state.process # NoValue
                          THEN @ \ {webui.state.process} ELSE @,
            !.thread[t].pc = "reset",
            !.last = Served("stop_capture", "none")]
    /\ UNCHANGED <<edgeVars, groupVars, severity, surface, capture, shutdown, route>>

\* stop_capture: the final image count, the reset of the state, the answer
StopReset(t, images) ==
    /\ webui.pc = "serving"
    /\ webui.thread[t].pc = "reset"
    /\ webui' = [webui EXCEPT
            !.state.stats.images = IF webui.state.output_dir # NoValue
                                   THEN images ELSE @,
            !.state.is_running = FALSE,
            !.state.process = NoValue,
            !.state.start_time = NoValue,
            !.thread[t] = [pc |-> "idle", response |-> "success"],
            !.last = Served("stop_capture", "success")]
    /\ UNCHANGED <<edgeVars, groupVars, severity, surface, capture, shutdown, route>>

\* generate_frames: the test of state['is_running'] at the top of the loop;
\* the placeholder while it is set, else the call of get_camera
FramesCheck ==
    /\ webui.pc = "serving"
    /\ webui.stream = "loop"
    /\ webui' = [webui EXCEPT
            !.stream = IF webui.state.is_running THEN "loop" ELSE "get_camera",
            !.last = Served("generate_frames", "none")]
    /\ UNCHANGED <<edgeVars, groupVars, severity, surface, capture, shutdown, route>>

\* get_camera: the test of state['is_running'] before the lock is taken
GetCameraCheck ==
    /\ webui.pc = "serving"
    /\ webui.stream = "get_camera"
    /\ webui' = [webui EXCEPT
            !.stream = IF webui.state.is_running THEN "loop" ELSE "lock",
            !.last = Served("get_camera", "none")]
    /\ UNCHANGED <<edgeVars, groupVars, severity, surface, capture, shutdown, route>>

\* get_camera: with camera_lock, cv2.VideoCapture(0) unless the camera is
\* open; whether the device opens is the driver's answer
GetCameraOpen(opened) ==
    /\ webui.pc = "serving"
    /\ webui.stream = "lock"
    /\ webui' = [webui EXCEPT
            !.camera = IF @ = "open" THEN "open"
                       ELSE IF opened THEN "open" ELSE "closed",
            !.stream = "loop",
            !.last = Served("get_camera", "none")]
    /\ UNCHANGED <<edgeVars, groupVars, severity, surface, capture, shutdown, route>>

\* simple_capture.py ends by itself
ProcessExits(p) ==
    /\ webui.pc = "serving"
    /\ p \in webui.processes
    /\ webui' = [webui EXCEPT
            !.processes = @ \ {p},
            !.last = Served("simple_capture", "none")]
    /\ UNCHANGED <<edgeVars, groupVars, severity, surface, capture, shutdown, route>>

InitWeb ==
    /\ EdgeIdle
    /\ GroupIdle
    /\ SeverityIdle
    /\ SurfaceIdle
    /\ CaptureIdle
    /\ ShutdownIdle
    /\ RouteIdle
    /\ WebInit

NextWeb ==
    \/ \E t \in WebThreads : StartCheck(t)
    \/ \E t \in WebThreads : StartRelease(t)
    \/ \E t \in WebThreads, raised \in BOOLEAN : StartPopen(t, raised)
    \/ \E t \in WebThreads : StartSet(t)
    \/ \E t \in WebThreads : StopCheck(t)
    \/ \E t \in WebThreads : StopKill(t)
    \/ \E t \in WebThreads, images \in ImageCounts : StopReset(t, images)
    \/ FramesCheck
    \/ GetCameraCheck
    \/ \E opened \in BOOLEAN : GetCameraOpen(opened)
    \/ \E p \in 1 .. MaxLaunches : ProcessExits(p)

SpecWeb == InitWeb /\ [][NextWeb]_vars

(***************************************************************************)
(* Properties of the web UI (SpecWeb)                                      *)
(***************************************************************************)

Rejections == {"Already running", "Not running"}

\* a start or stop request was just answered with its rejection and the
\* state and the subprocesses are as the request found them
RejectedUnchanged ==
    webui.last.response \in Rejections
    => /\ webui.state = webui.last.state
       /\ webui.processes = webui.last.processes

\* C35: at most one capture subprocess exists at any time under any
\* interleaving of start and stop requests, and a rejected start (while
\* running) or stop (while none runs) leaves the state unchanged.
C35_AtMostOneCaptureProcess ==
    /\ Cardinality(webui.processes) <= 1
    /\ RejectedUnchanged

\* What the code gives: a start request that finds state['is_running'] set
\* and a stop request that finds it clear are rejected, and the rejection
\* changes nothing, under every interleaving.
RejectionsLeaveStateUnchanged ==
    /\ RejectedUnchanged
    /\ (webui.last.response = "Already running") => webui.last.state.is_running
    /\ (webui.last.response = "Not running") => ~webui.last.state.is_running

\* state['process'] names a capture: Popen has returned and stop_capture has
\* not reset the state yet
CaptureLaunched == webui.state.process # NoValue

\* C36: from the launch of a capture subprocess until that capture is
\* stopped, the web UI does not hold the camera open, whatever the
\* interleaving of the video stream with start_capture.
C36_CameraClosedDuringCapture ==
    CaptureLaunched => webui.camera # "open"

====
